---- MODULE Spec2Model ----
(***************************************************************************)
(* Lineage-aware semantic retrieval: the fetch layer.                      *)
(*                                                                         *)
(* The repository is a set of sequential scripts.  Each behaviour of Spec  *)
(* is one run of one script (prog), chosen in Init:                        *)
(*   "family"  scripts/canonical/step_b_fetch_ops_family.py                *)
(*   "claims"  scripts/canonical/step_c_claim_representation_v3.py         *)
(*   "google"  fetch_claims_google_text of the claims extractor            *)
(*   "sem"     scripts/canonical/sem_v2_02_fetch_google_fulltext.py        *)
(*   "pure"    the side-effect free functions of these scripts, one call   *)
(*             at a time on inputs from bounded sets                       *)
(* The remote servers are the environment: every response (status, body    *)
(* kind, content type) and every network exception is a nondeterministic   *)
(* choice.  The local file system is taken to be reliable.                 *)
(***************************************************************************)
EXTENDS Integers, Sequences, FiniteSets, TLC

VARIABLES
  prog,            \* the script this run executes
  fam_pc,          \* position in step_b main / fetch_family_docdb
  fam_calls,       \* calls of fetch_family_docdb started so far (same docdb key)
  fam_cache,       \* content of CACHE_DIR/<sha1(docdb)>.json: "absent", "corrupt" or a document
  fam_start_cache, \* fam_cache as the current call found it
  fam_env,         \* os.environ["OPS_TOKEN"]: 0 = unset or too short, else a token id
  fam_hdr,         \* token id in headers["Authorization"]
  fam_tokctr,      \* tokens handed out so far by ops_get_token.py
  fam_token_state, \* token_state local of fetch_family_docdb
  fam_attempt,     \* loop variable `attempt`
  fam_trace,       \* events of the current call: GETs with their outcome, token refreshes
  fam_result,      \* return value of the current call
  cx_pc,           \* position in the claims extractor's main
  cx_input,        \* number of lines of the INPUT file
  cx_rows,         \* `total`: input rows read so far
  cx_cache,        \* cache/claims/<docdb>.xml per identifier: "absent" or the stored text
  cx_state,        \* TokenState: access_token (0 = None) and expires_at_epoch
  cx_now,          \* time.time(), in seconds from the start of the run
  cx_exchanges,    \* credential exchanges answered so far (the id of the newest token)
  cx_row,          \* the input row being processed
  cx_k,            \* position in the row's candidates x try-list iteration
  cx_loc,          \* main's per-row locals
  cx_trace,        \* events of the current row's primary phase: token exchanges and
                   \* fetch_claims_xml calls (dropped when the secondary fetch starts)
  cx_out,          \* the record just written to OUTPUT ("none" while a row is in progress)
  cx_enable_google, \* ENABLE_GOOGLE_FALLBACK is "1"
  cx_gtext,        \* the files main wrote under cache/claims_google/<selected>.txt
  gg_pc,           \* position in fetch_claims_google_text
  gg_calls,        \* calls of fetch_claims_google_text started so far
  gg_arg,          \* the `publication` argument of the current call
  gg_cache,        \* cache/google_claims/<key>.txt per key: "absent" or the stored text
  gg_idx,          \* loop variable `idx`, counted from 1
  gg_en,           \* TRUE while the next GET is the /en URL of pubs_to_try[idx]
  gg_last,         \* local `last_status`
  gg_trace,        \* the GETs of the current call with the response each one received
  gg_result,       \* return value of the current call
  sm_pc,           \* position in sem_v2_02's main
  sm_run,          \* the run over the same run directory (--run_id), counted from 1
  sm_input,        \* number of seeds
  sm_max_retries,  \* --max_retries
  sm_max_fail,     \* --max_fail
  sm_overwrite,    \* --overwrite
  sm_done,         \* the seeds the for loop has taken so far
  sm_store,        \* google_raw/<PUB>.json per publication: NoFile when there is none
  sm_counters,     \* counters["fail"], ["ok"], ["skipped_cached"], ["fail_no_text"]
  sm_pub,          \* loop variable `pub`
  sm_slug,         \* position in slug_attempts, counted from 1
  sm_attempt,      \* local `attempt` of the running request_with_retry call
  sm_req,          \* GETs issued by the latest request_with_retry call, and how it ended
  sm_rec,          \* `rec` of the current seed
  sm_out,          \* the record just written (NoRec when none was)
  pf_fn,           \* the pure function applied last ("none" before the first)
  pf_arg,          \* its arguments
  pf_res,          \* its result, when that is a list of strings
  pf_code          \* the exit code, when a script's main was run (-1 when none was)

famVars == <<fam_pc, fam_calls, fam_cache, fam_start_cache, fam_env, fam_hdr,
             fam_tokctr, fam_token_state, fam_attempt, fam_trace, fam_result>>

cxVars == <<cx_pc, cx_input, cx_rows, cx_cache, cx_state, cx_now, cx_exchanges, cx_row, cx_k,
            cx_loc, cx_trace, cx_out, cx_enable_google, cx_gtext>>

ggVars == <<gg_pc, gg_calls, gg_arg, gg_cache, gg_idx, gg_en, gg_last, gg_trace, gg_result>>

smVars == <<sm_pc, sm_run, sm_input, sm_max_retries, sm_max_fail, sm_overwrite, sm_done, sm_store,
            sm_counters, sm_pub, sm_slug, sm_attempt, sm_req, sm_rec, sm_out>>

pfVars == <<pf_fn, pf_arg, pf_res, pf_code>>

nonFamVars == <<cxVars, ggVars, smVars, pfVars>>
nonCxVars == <<famVars, ggVars, smVars, pfVars>>
nonGgVars == <<famVars, cxVars, smVars, pfVars>>
nonSmVars == <<famVars, cxVars, ggVars, pfVars>>
nonPfVars == <<famVars, cxVars, ggVars, smVars>>

vars == <<prog, famVars, cxVars, ggVars, smVars, pfVars>>

----------------------------------------------------------------------------
(* Bounds of the model *)

\* calls of fetch_family_docdb made on the same key in one run
MaxCalls == 2

\* input rows the claims extractor reads in one run
MaxRows == 2

\* seeds the sem_v2 fetch loop is given in one run
MaxSeeds == 2

\* largest --max_retries the sem_v2 fetch loop is run with
MaxRetriesArg == 2

\* members of processing_publications given to build_try_list
MaxProc == 3

\* seconds that may pass between two rows of the claims extractor
MaxTick == 1

\* input rows of a run with the secondary source enabled
MaxFallbackRows == 1

\* records in a batch given to the lineage gate
MaxBatch == 2

\* numbered claims in a text given to the claims segmenter
MaxClaims == 2

\* runs of the sem_v2 fetch loop over one run directory
MaxRuns == 2

----------------------------------------------------------------------------
(* step_b_fetch_ops_family.py *)

MAX_RETRY == 3

NoDoc == "None"

\* Documents: the one an earlier run may have cached, the one the server serves.
CachedDoc == "docA"
ServerDoc == "docB"

\* Body kinds of a response: a JSON document, a body carrying one of the three
\* invalid-token signatures, anything else (HTML, XML error page, empty).
FamBodies == {ServerDoc, "invalid_access_token", "other"}

FamStatuses == {200, 400, 401, 403, 404, 429, 500, 502, 503, 504}

\* The body is read for 200 (r.json()) and for 400/401 (r.text) only.
FamResponses ==
  [kind : {"exc"}, status : {0}, body : {"other"}]
    \cup [kind : {"resp"}, status : {200, 400, 401}, body : FamBodies]
    \cup [kind : {"resp"}, status : FamStatuses \ {200, 400, 401}, body : {"other"}]

\* A plausible slip: 404 is put among the statuses that are retried.
FamTransientStatuses_With404 == {404, 429, 500, 502, 503}

\* r.status_code in (429, 500, 502, 503)
FamTransientStatuses == {429, 500, 502, 503}

\* "invalid_access_token" in body or "Invalid Access Token" in body or ...
HasInvalidTokenSignature(body) == body = "invalid_access_token"

\* r.json(): the parsed document, or an exception
JsonParses(body) == body \in {CachedDoc, ServerDoc}

GetEvent(r, tok) == [ev |-> "GET", kind |-> r.kind, status |-> r.status, body |-> r.body, tok |-> tok]
RefreshEvent(tok) == [ev |-> "REFRESH", kind |-> "tok", status |-> 0, body |-> "other", tok |-> tok]

FamReturn(data, hit, status, retry, tstate) ==
  [data |-> data, cache_hit |-> hit, http_status |-> status, retry_count |-> retry, token_state |-> tstate]

NoResult == FamReturn(NoDoc, FALSE, 0, 0, "none")

\* main's loop reaches the call fetch_family_docdb(docdb) for a seed with this key
FamCall ==
  /\ prog = "family"
  /\ fam_pc = "main"
  /\ fam_calls < MaxCalls
  /\ fam_calls' = fam_calls + 1
  /\ fam_pc' = "cache_check"
  /\ fam_start_cache' = fam_cache
  /\ fam_trace' = <<>>
  /\ fam_result' = NoResult
  /\ fam_attempt' = 0
  /\ fam_token_state' = "none"
  /\ UNCHANGED <<prog, fam_cache, fam_env, fam_hdr, fam_tokctr, nonFamVars>>

\* p.exists() and json.loads succeeds: return the cached document
FamCacheHit ==
  /\ fam_pc = "cache_check"
  /\ JsonParses(fam_cache)
  /\ fam_result' = FamReturn(fam_cache, TRUE, 200, 0, "cache")
  /\ fam_pc' = "main"
  /\ UNCHANGED <<prog, fam_calls, fam_cache, fam_start_cache, fam_env, fam_hdr,
                 fam_tokctr, fam_token_state, fam_attempt, fam_trace, nonFamVars>>

\* A plausible slip: the corrupt entry is ignored but left on disk.
CacheAfterCheck_KeepCorrupt(c) == c

\* the cache after the check: a corrupt entry is unlinked
CacheAfterCheck(c) == IF c = "corrupt" THEN "absent" ELSE c

\* no usable entry: drop a corrupt one, then ensure_token() and enter the loop;
\* scriptOk is the outcome of ops_get_token.py when ensure_token has to call it
FamCacheMiss(scriptOk) ==
  /\ fam_pc = "cache_check"
  /\ ~JsonParses(fam_cache)
  /\ fam_cache' = CacheAfterCheck(fam_cache)
  /\ IF fam_env # 0
       THEN /\ fam_hdr' = fam_env
            /\ fam_token_state' = "env"
            /\ fam_attempt' = 1
            /\ fam_pc' = "loop"
            /\ UNCHANGED <<fam_env, fam_tokctr>>
       ELSE IF scriptOk
         THEN /\ fam_tokctr' = fam_tokctr + 1
              /\ fam_env' = fam_tokctr + 1
              /\ fam_hdr' = fam_tokctr + 1
              /\ fam_token_state' = "env"
              /\ fam_attempt' = 1
              /\ fam_pc' = "loop"
         ELSE \* get_token_from_script raises; nothing in main catches it
              /\ fam_pc' = "raised"
              /\ UNCHANGED <<fam_env, fam_hdr, fam_tokctr, fam_token_state, fam_attempt>>
  /\ UNCHANGED <<prog, fam_calls, fam_start_cache, fam_trace, fam_result, nonFamVars>>

\* `for attempt in range(1, MAX_RETRY + 1)`: is there another iteration?
FamLoopContinues(nextAttempt) == nextAttempt <= MAX_RETRY

\* The loop moves on to the next iteration, or falls out of the loop and returns
\* (None, False, -1, MAX_RETRY, 0, token_state).
FamNextIteration(tstate) ==
  IF FamLoopContinues(fam_attempt + 1)
    THEN /\ fam_attempt' = fam_attempt + 1
         /\ fam_pc' = "loop"
         /\ fam_result' = fam_result
    ELSE /\ fam_attempt' = fam_attempt
         /\ fam_pc' = "main"
         /\ fam_result' = FamReturn(NoDoc, FALSE, -1, MAX_RETRY, tstate)

\* A plausible slip: the response is cached as soon as it parses, whatever its status.
FamCacheAfter_AnyStatus(r) ==
  IF r.kind = "resp" /\ JsonParses(r.body) THEN r.body ELSE fam_cache

\* The cache entry after one iteration: p.write_text happens on status 200 only,
\* and only after r.json() returned.
FamCacheAfter(r) ==
  IF r.kind = "resp" /\ r.status = 200 /\ JsonParses(r.body) THEN r.body ELSE fam_cache

\* one iteration of the retry loop: the GET and what the code does with its outcome
FamAttempt(r, scriptOk) ==
  /\ fam_pc = "loop"
  /\ fam_cache' = FamCacheAfter(r)
  /\ LET get == GetEvent(r, fam_hdr) IN
     IF r.kind = "exc"
       THEN \* requests.get raised: except Exception -> sleep
            /\ fam_trace' = Append(fam_trace, get)
            /\ FamNextIteration(fam_token_state)
            /\ UNCHANGED <<fam_env, fam_hdr, fam_tokctr, fam_token_state>>
     ELSE IF r.status \in {400, 401} /\ HasInvalidTokenSignature(r.body)
       THEN IF scriptOk
              THEN \* refresh, then `continue`
                   /\ fam_tokctr' = fam_tokctr + 1
                   /\ fam_env' = fam_tokctr + 1
                   /\ fam_hdr' = fam_tokctr + 1
                   /\ fam_token_state' = "refreshed"
                   /\ fam_trace' = fam_trace \o <<get, RefreshEvent(fam_tokctr + 1)>>
                   /\ FamNextIteration("refreshed")
              ELSE \* get_token_from_script raised inside the try: except -> sleep
                   /\ fam_trace' = Append(fam_trace, get)
                   /\ FamNextIteration(fam_token_state)
                   /\ UNCHANGED <<fam_env, fam_hdr, fam_tokctr, fam_token_state>>
     ELSE IF r.status = 200
       THEN IF JsonParses(r.body)
              THEN \* ONLY cache success
                   /\ fam_trace' = Append(fam_trace, get)
                   /\ fam_result' = FamReturn(r.body, FALSE, 200, fam_attempt - 1, fam_token_state)
                   /\ fam_pc' = "main"
                   /\ UNCHANGED <<fam_env, fam_hdr, fam_tokctr, fam_token_state, fam_attempt>>
              ELSE \* r.json() raised: except -> sleep
                   /\ fam_trace' = Append(fam_trace, get)
                   /\ FamNextIteration(fam_token_state)
                   /\ UNCHANGED <<fam_env, fam_hdr, fam_tokctr, fam_token_state>>
     ELSE IF r.status \in FamTransientStatuses
       THEN /\ fam_trace' = Append(fam_trace, get)
            /\ FamNextIteration(fam_token_state)
            /\ UNCHANGED <<fam_env, fam_hdr, fam_tokctr, fam_token_state>>
     ELSE \* any other status: return (None, False, status, attempt - 1, ...)
          /\ fam_trace' = Append(fam_trace, get)
          /\ fam_result' = FamReturn(NoDoc, FALSE, r.status, fam_attempt - 1, fam_token_state)
          /\ fam_pc' = "main"
          /\ UNCHANGED <<fam_env, fam_hdr, fam_tokctr, fam_token_state, fam_attempt>>
  /\ UNCHANGED <<prog, fam_calls, fam_start_cache, nonFamVars>>

FamInit ==
  /\ fam_pc = "main"
  /\ fam_calls = 0
  /\ fam_cache \in {"absent", "corrupt", CachedDoc}
  /\ fam_start_cache = fam_cache
  /\ fam_env \in {0, 1}
  /\ fam_hdr = 0
  /\ fam_tokctr = 1
  /\ fam_token_state = "none"
  /\ fam_attempt = 0
  /\ fam_trace = <<>>
  /\ fam_result = NoResult

FamIdle ==
  /\ fam_pc = "idle"
  /\ fam_calls = 0
  /\ fam_cache = "absent"
  /\ fam_start_cache = "absent"
  /\ fam_env = 0
  /\ fam_hdr = 0
  /\ fam_tokctr = 1
  /\ fam_token_state = "none"
  /\ fam_attempt = 0
  /\ fam_trace = <<>>
  /\ fam_result = NoResult

FamNext ==
  \/ FamCall
  \/ FamCacheHit
  \/ \E scriptOk \in BOOLEAN : FamCacheMiss(scriptOk)
  \/ \E r \in FamResponses, scriptOk \in BOOLEAN : FamAttempt(r, scriptOk)

----------------------------------------------------------------------------
(* Publication numbers and web pages of the secondary source *)

None == "None"

\* A publication number is a sequence of one-character strings; the empty
\* sequence also stands for Python's None where a publication is expected.
NoPub == <<>>

Digits == {"0", "1", "2", "3", "4", "5", "6", "7", "8", "9"}

\* [A-Z], restricted to the letters that occur in the publications used here
UpperLetters == {"A", "B", "E", "P", "S", "U"}

\* str.upper() on one character
Upper(c) ==
  CASE c = "a" -> "A" [] c = "b" -> "B" [] c = "e" -> "E"
    [] c = "p" -> "P" [] c = "s" -> "S" [] c = "u" -> "U" [] OTHER -> c

RECURSIVE SquashUpper(_)
\* (publication or "").strip().upper().replace(" ", "")
SquashUpper(s) ==
  IF s = <<>> THEN <<>>
  ELSE IF Head(s) = " " THEN SquashUpper(Tail(s))
  ELSE <<Upper(Head(s))>> \o SquashUpper(Tail(s))

AllDigits(s) == \A i \in 1..Len(s) : s[i] \in Digits

\* length of the suffix matched by ([A-Z]\d?)$, 0 when there is none
KindLen(p) ==
  IF Len(p) >= 1 /\ p[Len(p)] \in UpperLetters THEN 1
  ELSE IF Len(p) >= 2 /\ p[Len(p)] \in Digits /\ p[Len(p) - 1] \in UpperLetters THEN 2
  ELSE 0

\* _US_PUB_RE = ^US(20\d{2})(\d+)([A-Z]\d?)$ : the length of group 2, 0 when no match
UsPubMidLen(p) ==
  LET k == KindLen(p)
      n == Len(p)
  IN IF /\ k > 0
        /\ n >= 7 + k
        /\ p[1] = "U" /\ p[2] = "S" /\ p[3] = "2" /\ p[4] = "0"
        /\ AllDigits(SubSeq(p, 5, n - k))
     THEN n - k - 6
     ELSE 0

\* _us_insert_zero_variant: a 6-digit middle part gets a "0" after the year
us_insert_zero_variant(pub) ==
  LET p == SquashUpper(pub)
  IN IF UsPubMidLen(p) = 6
     THEN SubSeq(p, 1, 6) \o <<"0">> \o SubSeq(p, 7, Len(p))
     ELSE NoPub


\* publication numbers in concatenated form, as the input files carry them
PubUS6 == <<"U", "S", "2", "0", "2", "1", "3", "7", "2", "5", "7", "4", "A", "1">>
PubUS7 == <<"U", "S", "2", "0", "2", "1", "0", "3", "7", "2", "5", "7", "4", "A", "1">>
PubUS6Raw == <<"u", "s", " ", "2", "0", "2", "1", "3", "7", "2", "5", "7", "4", "a", "1">>
PubEP == <<"E", "P", "1", "2", "3", "4", "5", "6", "7", "A", "1">>

\* a seed that parse_concat_pub rejects (shorter than 4 characters)
PubShort == <<"U", "S", "1">>

\* the `indicators` list of looks_like_consent_or_robot
Indicators ==
  {"before you continue", "consent", "unusual traffic", "automated queries",
   "verify you are a human", "captcha", "robot"}

\* Where a page carries marker phrases: in its first <h1>, in the first 8000
\* characters of the markup (the <title> lies there), or only further down.
PageMarkers ==
  { [h1 |-> {}, sample |-> {"google"}, rest |-> {}],
    [h1 |-> {"before you continue"}, sample |-> {"before you continue", "google"}, rest |-> {}],
    [h1 |-> {}, sample |-> {"captcha"}, rest |-> {}],
    [h1 |-> {}, sample |-> {"consent", "google"}, rest |-> {}],
    [h1 |-> {}, sample |-> {"before you continue", "google"}, rest |-> {}],
    [h1 |-> {}, sample |-> {"verify you are a human"}, rest |-> {}],
    [h1 |-> {}, sample |-> {"google"}, rest |-> {"captcha"}] }

\* what the markup holds besides: no claims or description section, a description
\* section only, a claims section with under 80 characters of text, or a longer one
PageContents == {"nothing", "desc_only", "claims_short", "claims_long"}

Pages ==
  {[h1 |-> m.h1, sample |-> m.sample, rest |-> m.rest, content |-> c] :
     m \in PageMarkers, c \in PageContents}

\* a body that is empty or whitespace
BlankPage == [h1 |-> {}, sample |-> {}, rest |-> {}, content |-> "blank"]

PageHasIndicator(page) == (page.h1 \cup page.sample \cup page.rest) \cap Indicators # {}

\* the pages offered to fetch_claims_google_text, which reads none of the markers
GgPages == {p \in Pages : p.rest = {} /\ (p.h1 # {} \/ p.sample = {"google"})}

----------------------------------------------------------------------------
(* step_c_claim_representation_v3.py: candidate normalization and build_try_list *)

\* ord(c) for the characters used here
CharCode(c) ==
  CASE c = " " -> 32 [] c = "." -> 46
    [] c = "0" -> 48 [] c = "1" -> 49 [] c = "2" -> 50 [] c = "3" -> 51 [] c = "4" -> 52
    [] c = "5" -> 53 [] c = "6" -> 54 [] c = "7" -> 55 [] c = "8" -> 56 [] c = "9" -> 57
    [] c = "A" -> 65 [] c = "B" -> 66 [] c = "E" -> 69 [] c = "P" -> 80 [] c = "S" -> 83
    [] c = "U" -> 85
    [] c = "a" -> 97 [] c = "b" -> 98 [] c = "e" -> 101 [] c = "p" -> 112 [] c = "s" -> 115
    [] c = "u" -> 117

RECURSIVE StrLess(_, _)
\* a < b on Python strings: code point order, a proper prefix is smaller
StrLess(a, b) ==
  IF b = <<>> THEN FALSE
  ELSE IF a = <<>> THEN TRUE
  ELSE IF Head(a) # Head(b) THEN CharCode(Head(a)) < CharCode(Head(b))
  ELSE StrLess(Tail(a), Tail(b))

RECURSIVE LStrip(_)
LStrip(s) == IF s # <<>> /\ Head(s) = " " THEN LStrip(Tail(s)) ELSE s

RECURSIVE RStrip(_)
RStrip(s) == IF s # <<>> /\ s[Len(s)] = " " THEN RStrip(SubSeq(s, 1, Len(s) - 1)) ELSE s

\* str.strip()
Strip(s) == RStrip(LStrip(s))

\* str.upper()
UpperStr(s) == [i \in 1..Len(s) |-> Upper(s[i])]

\* str.isalpha() / str.isdigit(): false on the empty string
IsAlpha(s) == s # <<>> /\ \A i \in 1..Len(s) : Upper(s[i]) \in UpperLetters
IsDigit(s) == s # <<>> /\ AllDigits(s)

\* "." in s
HasDot(s) == \E i \in 1..Len(s) : s[i] = "."

\* parse_concat_pub: <<cc, number, kind>>, or <<>> for None
parse_concat_pub(pub) ==
  LET p == SquashUpper(pub)
      k == KindLen(p)
  IN IF Len(p) < 4 \/ ~IsAlpha(SubSeq(p, 1, 2)) THEN <<>>
     ELSE IF k = 0 THEN <<>>
     ELSE IF ~IsDigit(SubSeq(p, 3, Len(p) - k)) THEN <<>>
     ELSE <<SubSeq(p, 1, 2), SubSeq(p, 3, Len(p) - k), SubSeq(p, Len(p) - k + 1, Len(p))>>

\* to_dotted_from_concat: "CC.NUMBER.KIND", or <<>> for None
to_dotted_from_concat(pub) ==
  LET t == parse_concat_pub(pub)
  IN IF t = <<>> THEN <<>> ELSE t[1] \o <<".">> \o t[2] \o <<".">> \o t[3]

\* split_dotted: <<cc, number, kind>>, or <<>> for None
split_dotted(docdb) ==
  LET s == UpperStr(Strip(docdb))
      dots == {i \in 1..Len(s) : s[i] = "."}
  IN IF Cardinality(dots) # 2 THEN <<>>
     ELSE LET i == CHOOSE x \in dots : \A y \in dots : x <= y
              j == CHOOSE x \in dots : \A y \in dots : y <= x
          IN IF i = 1 \/ j = i + 1 \/ j = Len(s) THEN <<>>
             ELSE <<SubSeq(s, 1, i - 1), SubSeq(s, i + 1, j - 1), SubSeq(s, j + 1, Len(s))>>

\* ^[A-Z]{2}\.\d+\.[A-Z0-9]{1,2}$ of to_docdb
DocdbLike(p) ==
  LET n == Len(p)
  IN /\ n >= 6
     /\ p[1] \in UpperLetters /\ p[2] \in UpperLetters /\ p[3] = "."
     /\ \E j \in 5..(n - 1) :
          /\ p[j] = "."
          /\ AllDigits(SubSeq(p, 4, j - 1))
          /\ n - j <= 2
          /\ \A i \in (j + 1)..n : p[i] \in UpperLetters \cup Digits

\* A plausible slip: a string already in docdb form loses the last character of
\* its kind code (p[:-1] returned for p).
to_docdb_KindCut(pub) ==
  LET p == UpperStr(Strip(pub))
  IN IF DocdbLike(p) THEN SubSeq(p, 1, Len(p) - 1) ELSE <<>>

\* to_docdb (step_b_fetch_ops_family.py): "CC.NUMBER.KIND", or <<>> for None
to_docdb(pub) ==
  LET p == UpperStr(Strip(pub))
      n == Len(p)
  IN IF DocdbLike(p) THEN p
     ELSE IF n < 6 THEN <<>>
     ELSE IF ~IsAlpha(SubSeq(p, 1, 2)) THEN <<>>
     ELSE IF p[n] = "P" THEN <<>>
     ELSE IF ~IsDigit(SubSeq(p, 3, n - 2)) THEN <<>>
     ELSE SubSeq(p, 1, 2) \o <<".">> \o SubSeq(p, 3, n - 2) \o <<".">> \o SubSeq(p, n - 1, n)

\* is_kind_letter_only
is_kind_letter_only(kind) ==
  LET k == UpperStr(Strip(kind)) IN Len(k) = 1 /\ IsAlpha(k)

\* kind_letter
kind_letter(kind) == SubSeq(UpperStr(Strip(kind)), 1, 1)


RECURSIVE Dedup(_, _)
\* the closing loop of build_try_list: non-empty entries, first occurrences only
Dedup(tries, seen) ==
  IF tries = <<>> THEN <<>>
  ELSE IF Head(tries) # <<>> /\ Head(tries) \notin seen
    THEN <<Head(tries)>> \o Dedup(Tail(tries), seen \cup {Head(tries)})
  ELSE Dedup(Tail(tries), seen)

\* preferred_suffix for the seed's kind letter
preferred_suffix(want_letter) ==
  IF want_letter = <<"A">> THEN {<<"1">>, <<"2">>} ELSE {<<"1">>, <<"2">>, <<"3">>}

\* first component of score(d), for a d that split_dotted accepts
TryScore(d, want_letter) ==
  LET k == split_dotted(d)[3]
  IN IF Len(k) >= 2 /\ SubSeq(k, 1, 1) = want_letter /\ Tail(k) \in preferred_suffix(want_letter)
       THEN (IF Tail(k) = <<"1">> THEN 0 ELSE 1)
       ELSE 5

\* score(a) < score(b) on the tuples (rank, d)
ScoreLess(a, b, want_letter) ==
  \/ TryScore(a, want_letter) < TryScore(b, want_letter)
  \/ TryScore(a, want_letter) = TryScore(b, want_letter) /\ StrLess(a, b)

RECURSIVE SortedByScore(_, _)
\* sorted(set(candidates2), key=score)
SortedByScore(S, want_letter) ==
  IF S = {} THEN <<>>
  ELSE LET m == CHOOSE x \in S : \A y \in S \ {x} : ScoreLess(x, y, want_letter)
       IN <<m>> \o SortedByScore(S \ {m}, want_letter)

\* A plausible slip: the jurisdiction test of the filter is left out.
FamilyFallbacks_AnyCountry(proc, cc, want_letter) ==
  LET proc_dotted == {to_dotted_from_concat(proc[i]) : i \in 1..Len(proc)} \ {<<>>}
  IN {d \in proc_dotted :
        LET i == split_dotted(d)
        IN /\ i # <<>>
           /\ kind_letter(i[3]) = want_letter
           /\ ~is_kind_letter_only(i[3])}

\* the members of processing_publications that pass the filter of lines 240-250
FamilyFallbacks(proc, cc, want_letter) ==
  LET proc_dotted == {to_dotted_from_concat(proc[i]) : i \in 1..Len(proc)} \ {<<>>}
  IN {d \in proc_dotted :
        LET i == split_dotted(d)
        IN /\ i # <<>>
           /\ i[1] = cc
           /\ kind_letter(i[3]) = want_letter
           /\ ~is_kind_letter_only(i[3])}

\* the canonical dotted form build_try_list gives the candidate ("" when none)
CandDotted(candidate) ==
  UpperStr(Strip(IF HasDot(candidate) THEN candidate ELSE to_dotted_from_concat(candidate)))

\* build_try_list(row, candidate), with proc = row["processing_publications"]
build_try_list(proc, candidate) ==
  LET dotted == CandDotted(candidate)
      first == IF dotted # <<>> THEN <<dotted>> ELSE <<>>
      info == IF dotted # <<>> THEN split_dotted(dotted) ELSE <<>>
  IN IF info = <<>> THEN Dedup(first, {})
     ELSE IF is_kind_letter_only(info[3])
       THEN Dedup(first \o SortedByScore(FamilyFallbacks(proc, info[1], kind_letter(info[3])),
                                         kind_letter(info[3])),
                  {})
     ELSE Dedup(first, {})

\* candidates given to build_try_list: concatenated and dotted forms, with a bare
\* letter kind or a numbered kind, in lower case, padded, and not normalizable
TryCandidates ==
  { <<"U", "S", "1", "B">>, <<"U", "S", "1", "A">>, <<"u", "s", " ", "1", "b">>,
    <<"U", "S", "1", "B", "1">>, <<"U", "S", ".", "1", ".", "B">>,
    <<" ", "u", "s", ".", "1", ".", "a">>, <<"E", "P", "1", "B">>, <<"1", "B">> }

\* members of row["processing_publications"]
TryFamilyPool ==
  { <<"U", "S", "2", "B", "2">>, <<"U", "S", "1", "B", "3">>, <<"U", "S", "3", "B", "1">>,
    <<"U", "S", "1", "B", "4">>, <<"U", "S", "1", "B">>, <<"U", "S", "2", "A", "2">>,
    <<"U", "S", "1", "A", "3">>, <<"U", "S", "3", "A", "1">>, <<"E", "P", "1", "B", "1">>,
    <<"B", "1">> }

RECURSIVE SeqsUpTo(_, _)
\* the sequences over S of length at most n
SeqsUpTo(S, n) ==
  IF n = 0 THEN {<<>>}
  ELSE LET shorter == SeqsUpTo(S, n - 1)
       IN shorter \cup {Append(q, x) : q \in shorter, x \in S}

----------------------------------------------------------------------------
(* step_c_claim_representation_v3.py: token, fetch_claims_xml, structure gate, main *)

\* Publication identifiers in CC.NUMBER.KIND form
DocIds == {"US.1.A", "US.1.A1"}

\* `now < state.expires_at_epoch - 30`
TOKEN_MARGIN == 30

\* expires_in values the token endpoint answers with
ExpiresIn == {TOKEN_MARGIN + 1, TOKEN_MARGIN + 2}

\* Outcomes of the credential exchange: an error (transport exception, HTTP error
\* status raised by raise_for_status, a body without access_token) or a token.
ExchangeOutcomes == [ok : {FALSE}, expires_in : {0}] \cup [ok : {TRUE}, expires_in : ExpiresIn]

\* A plausible slip: the stored token is reused until the very instant it expires.
get_access_token_NoMargin(state, now, newId, x) ==
  IF state.access_token # 0 /\ now < state.expires_at_epoch
    THEN [token |-> state.access_token, state |-> state, exchanged |-> FALSE, raised |-> FALSE]
  ELSE IF ~x.ok
    THEN [token |-> 0, state |-> state, exchanged |-> TRUE, raised |-> TRUE]
  ELSE [token |-> newId,
        state |-> [access_token |-> newId, expires_at_epoch |-> now + x.expires_in],
        exchanged |-> TRUE, raised |-> FALSE]

\* get_access_token(session, key, secret, state) at time `now`, with the outcome x
\* of the exchange in case one is made
get_access_token(state, now, newId, x) ==
  IF state.access_token # 0 /\ now < state.expires_at_epoch - TOKEN_MARGIN
    THEN [token |-> state.access_token, state |-> state, exchanged |-> FALSE, raised |-> FALSE]
  ELSE IF ~x.ok
    THEN [token |-> 0, state |-> state, exchanged |-> TRUE, raised |-> TRUE]
  ELSE [token |-> newId,
        state |-> [access_token |-> newId, expires_at_epoch |-> now + x.expires_in],
        exchanged |-> TRUE, raised |-> FALSE]

\* Payload kinds: claim elements (with or without a claim numbered 1), well-formed
\* XML with no claim element, text that does not parse as XML (or is empty).
CxPayloads == {"claims", "claims_no_1", "no_claim_tag", "malformed"}

CxStatuses == {200, 304, 401, 403, 404, 429, 500}

\* Outcomes of session.get in fetch_claims_xml.  Content type and text are read
\* only below status 400, the text only for an XML content type.
CxResponses ==
  [kind : {"exc"}, status : {0}, ctype : {"other"}, text : {"malformed"}]
    \cup [kind : {"resp"}, status : {st \in CxStatuses : st >= 400}, ctype : {"other"}, text : {"malformed"}]
    \cup [kind : {"resp"}, status : {st \in CxStatuses : st < 400}, ctype : {"other"}, text : {"malformed"}]
    \cup [kind : {"resp"}, status : {st \in CxStatuses : st < 400}, ctype : {"xml"}, text : CxPayloads]

\* the status checks of fetch_claims_xml, in the order of the code
CxFetchStatus(r) ==
  IF r.status = 404 THEN "OPS_404"
  ELSE IF r.status = 401 THEN "OPS_401"
  ELSE IF r.status = 403 THEN "OPS_403"
  ELSE IF r.status >= 400 THEN "OPS_OTHER_" \o ToString(r.status)
  ELSE IF r.ctype # "xml" THEN "OPS_NON_XML"
  ELSE "OK"

\* fetch_claims_xml(session, token, docdb_dotted) with cache `cache` and, on a miss,
\* outcome r of its one GET
fetch_claims_xml(cache, docdb, r) ==
  IF cache[docdb] # "absent"
    THEN [xml_text |-> cache[docdb], status |-> "OK(CACHE)", cache |-> cache,
          gets |-> 0, raised |-> FALSE]
  ELSE IF r.kind = "exc"
    THEN [xml_text |-> None, status |-> "RAISED", cache |-> cache, gets |-> 1, raised |-> TRUE]
  ELSE IF CxFetchStatus(r) # "OK"
    THEN [xml_text |-> None, status |-> CxFetchStatus(r), cache |-> cache,
          gets |-> 1, raised |-> FALSE]
  ELSE [xml_text |-> r.text, status |-> "OK", cache |-> [cache EXCEPT ![docdb] = r.text],
        gets |-> 1, raised |-> FALSE]

\* has_claim_structure(xml_text): (ok, count, reason); the count is 2 for the
\* payloads with claim elements
has_claim_structure(xml_text) ==
  IF xml_text = "malformed" THEN [ok |-> FALSE, cnt |-> 0, reason |-> "XML_PARSE_FAIL"]
  ELSE IF xml_text = "no_claim_tag" THEN [ok |-> FALSE, cnt |-> 0, reason |-> "NO_CLAIM_TAG"]
  ELSE IF xml_text = "claims_no_1" THEN [ok |-> TRUE, cnt |-> 2, reason |-> "OK_NO_NUM"]
  ELSE [ok |-> TRUE, cnt |-> 2, reason |-> "OK"]

RECURSIVE Join(_)
\* a sequence of characters as one string
Join(chars) == IF chars = <<>> THEN "" ELSE Head(chars) \o Join(Tail(chars))

\* lines 513-514 of main: cand_norm, the form selected is compared with
cand_norm(cand) == UpperStr(IF HasDot(cand) THEN cand ELSE to_dotted_from_concat(cand))

\* A candidate of a row: its normalized dotted form (cand_norm) and the try list
\* build_try_list gives for it (empty when the candidate does not normalize).
Cand(norm, tries) == [norm |-> norm, tries |-> tries]

DirectOnly(d) == Cand(d, <<d>>)

\* the candidate `cand` of a row with processing_publications `proc`
RowCand(proc, cand) ==
  LET tries == build_try_list(proc, cand)
  IN Cand(Join(cand_norm(cand)), [i \in 1..Len(tries) |-> Join(tries[i])])

\* claims_candidates and processing_publications of the input rows: one or two
\* candidates, in concatenated form, dotted with padding, or not normalizable
CxInputs ==
  LET US1A == <<"U", "S", "1", "A">>
      US1A1 == <<"U", "S", "1", "A", "1">>
  IN { [proc |-> <<>>, cands |-> <<>>],
       [proc |-> <<>>, cands |-> <<US1A1>>],
       [proc |-> <<US1A1>>, cands |-> <<US1A>>],
       [proc |-> <<>>, cands |-> <<US1A, US1A1>>],
       [proc |-> <<>>, cands |-> <<US1A1, US1A1>>],
       [proc |-> <<>>, cands |-> <<<<"1", "A">>, US1A1>>],
       [proc |-> <<>>, cands |-> << <<" ", "U", "S", ".", "1", ".", "A", "1">> >>] }

\* Input rows: claims_candidates with their try lists, whether
\* required_set_targets names a US publication / an EP or WO publication,
\* seed_publication_number, and us_pub = targets.us_b_pub or targets.us_a_pub.
CxCandidateLists ==
  {[i \in 1..Len(x.cands) |-> RowCand(x.proc, x.cands[i])] : x \in CxInputs}

CxRows ==
  [candidates : CxCandidateLists, has_us : {TRUE}, has_ep_or_wo : {FALSE},
   seed_publication_number : {PubUS6}, us_pub : {PubUS7}]
    \cup {[candidates |-> <<DirectOnly("US.1.A1")>>, has_us |-> u, has_ep_or_wo |-> e,
           seed_publication_number |-> NoPub, us_pub |-> IF u THEN PubUS7 ELSE NoPub] :
            u \in BOOLEAN, e \in BOOLEAN}
    \cup {[candidates |-> <<>>, has_us |-> FALSE, has_ep_or_wo |-> TRUE,
           seed_publication_number |-> NoPub, us_pub |-> NoPub],
          [candidates |-> <<>>, has_us |-> TRUE, has_ep_or_wo |-> FALSE,
           seed_publication_number |-> PubShort, us_pub |-> PubUS7]}

\* the rows given to a run with the fallback enabled: one per way Phase 2 finds
\* (or does not find) the publication to ask the secondary source for
CxFallbackRows ==
  {r \in CxRows :
     \/ r.seed_publication_number = PubUS6 /\ r.candidates = <<Cand("US.1.A", <<"US.1.A", "US.1.A1">>)>>
     \/ r.seed_publication_number = NoPub /\ ~r.has_ep_or_wo
     \/ r.candidates = <<>>}

NoRow == [candidates |-> <<>>, has_us |-> FALSE, has_ep_or_wo |-> FALSE,
          seed_publication_number |-> NoPub, us_pub |-> NoPub]

\* A plausible slip: the loops end with the first candidate's try list.
FlatTries_FirstCandidateOnly(cands) ==
  IF cands = <<>> THEN <<>>
  ELSE [j \in 1..Len(Head(cands).tries) |->
          [docdb |-> Head(cands).tries[j], cand_norm |-> Head(cands).norm]]

RECURSIVE FlatTries(_)
\* `for cand in candidates: for docdb_dotted in build_try_list(row, cand)` as one
\* sequence of (docdb_dotted, cand_norm) pairs
FlatTries(cands) ==
  IF cands = <<>> THEN <<>>
  ELSE [j \in 1..Len(Head(cands).tries) |->
          [docdb |-> Head(cands).tries[j], cand_norm |-> Head(cands).norm]]
       \o FlatTries(Tail(cands))

\* main's locals at the top of a row
CxLocals0 ==
  [token |-> 0,
   selected |-> None, selected_source |-> None, structure_status |-> None,
   claims_count |-> 0, claim_gate_reason |-> None, last_fetch_status |-> None,
   claims_source |-> None, governance_flags |-> <<>>, hitl_cause |-> None,
   google_status |-> None, google_seed_publication |-> NoPub,
   google_resolved_publication |-> NoPub,
   attempted_docdb_count |-> 0, attempted_docdb_head |-> <<>>,
   last_attempted_docdb |-> None, attempt_log_head |-> <<>>]

ExchangeEvent(tok, expires_in) ==
  [ev |-> "EXCHANGE", docdb |-> None, gets |-> 0, status |-> 0, ctype |-> "other", tok |-> tok,
   fetch_status |-> None, returned |-> None, wrote |-> FALSE, expires_in |-> expires_in]

\* a call of fetch_claims_xml: the GETs it issued (0 on a cache hit), the response
\* to its GET, the token it sent, what it returned, whether it wrote the cache
FetchEvent(docdb, r, f, tok, wrote) ==
  [ev |-> "FETCH", docdb |-> docdb, gets |-> f.gets,
   status |-> IF f.gets = 0 THEN 0 ELSE r.status,
   ctype |-> IF f.gets = 0 THEN "other" ELSE r.ctype,
   tok |-> tok, fetch_status |-> f.status, returned |-> f.xml_text, wrote |-> wrote,
   expires_in |-> 0]

\* read the next row, initialise the locals, get_access_token
CxRowStart(row, tick, x) ==
  /\ cx_pc = "row"
  /\ LET now == cx_now + tick
         t == get_access_token(cx_state, now, cx_exchanges + 1, x)
     IN /\ cx_now' = now
        /\ cx_rows' = cx_rows + 1
        /\ cx_row' = row
        /\ cx_k' = 1
        /\ cx_out' = "none"
        /\ cx_state' = t.state
        /\ cx_exchanges' = IF t.exchanged /\ ~t.raised THEN cx_exchanges + 1 ELSE cx_exchanges
        /\ cx_trace' = IF t.exchanged /\ ~t.raised THEN <<ExchangeEvent(t.token, x.expires_in)>> ELSE <<>>
        /\ cx_loc' = [CxLocals0 EXCEPT !.token = t.token]
        /\ cx_pc' = IF t.raised THEN "raised"
                    ELSE IF FlatTries(row.candidates) = <<>> THEN "phase2"
                    ELSE "try"
  /\ UNCHANGED <<prog, cx_input, cx_enable_google, cx_gtext, cx_cache, nonCxVars>>

\* `for line in f_in`: the loop is back at its head after a record was written (or
\* at the start of the run); the locals of the previous row are dead.  At the end
\* of the input main prints the summary and returns 0.
CxLoopHead ==
  /\ prog = "claims"
  /\ cx_pc = "head"
  /\ cx_pc' = IF cx_rows < cx_input THEN "row" ELSE "done"
  /\ cx_out' = "none"
  /\ cx_row' = NoRow
  /\ cx_k' = 1
  /\ cx_loc' = CxLocals0
  /\ cx_trace' = <<>>
  /\ UNCHANGED <<prog, cx_input, cx_enable_google, cx_gtext, cx_rows, cx_cache, cx_state, cx_now, cx_exchanges, nonCxVars>>

HeadAppend(seq, x, n) == IF Len(seq) < n THEN Append(seq, x) ELSE seq

\* one iteration of the inner loop of Phase 1: fetch_claims_xml for the next
\* identifier, the structure gate, and the selection or `continue`
CxTry(r) ==
  /\ cx_pc = "try"
  /\ LET flat == FlatTries(cx_row.candidates)
         t == flat[cx_k]
         f == fetch_claims_xml(cx_cache, t.docdb, r)
         g == has_claim_structure(f.xml_text)
         l1 == [cx_loc EXCEPT
                  !.attempted_docdb_count = @ + 1,
                  !.last_attempted_docdb = t.docdb,
                  !.attempted_docdb_head = HeadAppend(@, t.docdb, 5)]
         l2 == [l1 EXCEPT
                  !.last_fetch_status = f.status,
                  !.attempt_log_head = HeadAppend(@, [docdb |-> t.docdb, fetch_status |-> f.status], 10)]
         last == cx_k = Len(flat)
     IN /\ cx_trace' = Append(cx_trace, FetchEvent(t.docdb, r, f, cx_loc.token, f.cache # cx_cache))
        /\ cx_cache' = f.cache
        /\ IF f.raised
             THEN \* the exception leaves main: no record for this row or any later one
                  /\ cx_pc' = "raised"
                  /\ cx_loc' = l1
                  /\ cx_k' = cx_k
           ELSE IF f.xml_text = None
             THEN /\ cx_loc' = l2
                  /\ cx_k' = cx_k + 1
                  /\ cx_pc' = IF last THEN "phase2" ELSE "try"
           ELSE IF ~g.ok
             THEN /\ cx_loc' = [l2 EXCEPT !.structure_status = "STRUCTURE_UNCERTAIN",
                                          !.claim_gate_reason = g.reason]
                  /\ cx_k' = cx_k + 1
                  /\ cx_pc' = IF last THEN "phase2" ELSE "try"
           ELSE /\ cx_loc' = [l2 EXCEPT
                                !.selected = t.docdb,
                                !.claims_count = g.cnt,
                                !.claim_gate_reason = g.reason,
                                !.structure_status = "OK",
                                !.claims_source = "OPS",
                                !.selected_source =
                                   IF t.docdb = t.cand_norm THEN "DIRECT" ELSE "FAMILY_FALLBACK"]
                /\ cx_k' = cx_k
                /\ cx_pc' = "phase2"
  /\ UNCHANGED <<prog, cx_input, cx_enable_google, cx_gtext, cx_rows, cx_state, cx_now, cx_exchanges, cx_row, cx_out, nonCxVars>>

\* the record main writes for the row
CxRecord(l, row) ==
  [selected_publication |-> l.selected,
   selected_source |-> l.selected_source,
   structure_status |-> l.structure_status,
   claims_count |-> l.claims_count,
   claim_gate_reason |-> l.claim_gate_reason,
   last_fetch_status |-> l.last_fetch_status,
   claims_source |-> l.claims_source,
   hitl_cause |-> l.hitl_cause,
   governance_flags |-> l.governance_flags,
   google_status |-> l.google_status,
   google_seed_publication |-> l.google_seed_publication,
   google_resolved_publication |-> l.google_resolved_publication,
   claims_raw_xml_path |-> IF l.selected # None /\ l.claims_source = "OPS" THEN l.selected ELSE None,
   claims_google_text_path |->
     IF l.selected # None /\ l.claims_source = "GOOGLE" THEN l.selected ELSE None,
   attempted_docdb_count |-> l.attempted_docdb_count,
   attempted_docdb_head |-> l.attempted_docdb_head,
   last_attempted_docdb |-> l.last_attempted_docdb,
   attempt_log_head |-> l.attempt_log_head,
   seed_publication_number |-> row.seed_publication_number]

\* Phase 2, lines 530-540: the HITL classification of a row with no selection
Phase2Classify(l, row) ==
  LET statuses == [i \in 1..Len(l.attempt_log_head) |-> l.attempt_log_head[i].fetch_status]
      all_404 == Len(statuses) > 0 /\ \A i \in 1..Len(statuses) : statuses[i] = "OPS_404"
  IN IF all_404 /\ row.has_us /\ ~row.has_ep_or_wo
       THEN [l EXCEPT !.hitl_cause = "HITL_US_ONLY_OPS_CLAIMS_404",
                      !.structure_status = "HITL_US_ONLY_OPS_CLAIMS_404"]
     ELSE [l EXCEPT !.structure_status = IF @ # None THEN @ ELSE "NO_VALID_PUBLICATION"]

\* A plausible slip: Phase 2 runs for every row.
Phase1Failed_Always(l) == TRUE

\* `if selected: ok += 1 / else:` is in its else branch
Phase1Failed(l) == l.selected = None

\* after Phase 1: count the row, classify a row with no selection (Phase 2), and
\* write the record; the row has a selection or ENABLE_GOOGLE_FALLBACK is not "1"
CxFinishRow ==
  /\ cx_pc = "phase2"
  /\ ~Phase1Failed(cx_loc) \/ ~cx_enable_google
  /\ LET l == cx_loc
         l2 == IF Phase1Failed(l) THEN Phase2Classify(l, cx_row) ELSE l
     IN /\ cx_loc' = l2
        /\ cx_out' = CxRecord(l2, cx_row)
  /\ cx_pc' = "head"
  /\ UNCHANGED <<prog, cx_input, cx_enable_google, cx_gtext, cx_rows, cx_cache, cx_state, cx_now, cx_exchanges, cx_row, cx_k,
                 cx_trace, nonCxVars>>

CxInit ==
  /\ cx_pc = "head"
  /\ cx_input \in 0..MaxRows
  /\ cx_rows = 0
  /\ cx_cache = [d \in DocIds |-> "absent"]
  /\ cx_state = [access_token |-> 0, expires_at_epoch |-> 0]
  /\ cx_now = 0
  /\ cx_exchanges = 0
  /\ cx_row = NoRow
  /\ cx_k = 1
  /\ cx_loc = CxLocals0
  /\ cx_trace = <<>>
  /\ cx_out = "none"
  /\ cx_enable_google = FALSE
  /\ cx_gtext = {}

CxIdle ==
  /\ cx_pc = "idle"
  /\ cx_input = 0
  /\ cx_rows = 0
  /\ cx_cache = [d \in DocIds |-> "absent"]
  /\ cx_state = [access_token |-> 0, expires_at_epoch |-> 0]
  /\ cx_now = 0
  /\ cx_exchanges = 0
  /\ cx_row = NoRow
  /\ cx_k = 1
  /\ cx_loc = CxLocals0
  /\ cx_trace = <<>>
  /\ cx_out = "none"
  /\ cx_enable_google = FALSE
  /\ cx_gtext = {}

CxNext ==
  \/ \E row \in CxRows, tick \in 0..MaxTick, x \in ExchangeOutcomes : CxRowStart(row, tick, x)
  \/ CxLoopHead
  \/ \E r \in CxResponses : CxTry(r)
  \/ CxFinishRow

----------------------------------------------------------------------------
(* step_c_claim_representation_v3.py: fetch_claims_google_text *)

GgArgs == {PubUS6, PubUS6Raw, PubUS7, PubEP, <<" ">>}

\* the names cache/google_claims/<key>.txt can take for these arguments
GgKeys == {PubUS6, PubUS7, PubEP}

GgStatuses == {200, 403, 404, 429, 500}

\* A GET of _http_get_google raises, or answers with a status; a content type
\* and a body are read only below 400.
GgResponses ==
  [kind : {"exc"}, status : {0}, ctype : {"other"}, page : {BlankPage}]
    \cup [kind : {"resp"}, status : GgStatuses, ctype : {"other"}, page : {BlankPage}]
    \cup [kind : {"resp"}, status : {200}, ctype : {"html"}, page : GgPages \cup {BlankPage}]

\* _strip_tags(claims_block) for the page's claims section
ClaimsText(page) ==
  CASE page.content = "claims_long" -> "claims text"
    [] page.content = "claims_short" -> "short"
    [] OTHER -> ""

\* the text has at least 80 characters
LongEnough(text) == text = "claims text"

GgReturn(text, status, resolved) ==
  [claims_text |-> text, status |-> status, resolved_publication |-> resolved]

NoGgResult == GgReturn(None, "none", NoPub)

\* pubs_to_try: the original, then the zero-inserted variant when there is one
pubs_to_try(pub) ==
  LET alt0 == us_insert_zero_variant(pub)
  IN IF alt0 # NoPub /\ alt0 # pub THEN <<pub, alt0>> ELSE <<pub>>

\* What the loop body does with the response it ends up with (lines 375-427):
\* return a failure, go on to the next variant with a new last_status, or succeed.
GgClassify(r) ==
  IF r.status = 404 THEN [act |-> "continue", status |-> "GOOGLE_404"]
  ELSE IF r.status \in {429, 403} THEN [act |-> "return", status |-> "GOOGLE_BLOCKED"]
  ELSE IF r.status >= 400
    THEN [act |-> "return", status |-> "GOOGLE_ERROR_HTTP_" \o ToString(r.status)]
  ELSE IF r.ctype # "html" THEN [act |-> "continue", status |-> "GOOGLE_NON_HTML"]
  ELSE IF r.page.content = "blank" THEN [act |-> "continue", status |-> "GOOGLE_ERROR_EMPTY_BODY"]
  ELSE IF r.page.content \notin {"claims_short", "claims_long"}
    THEN [act |-> "continue", status |-> "GOOGLE_NO_CLAIMS"]
  ELSE IF ~LongEnough(ClaimsText(r.page)) THEN [act |-> "continue", status |-> "GOOGLE_NO_CLAIMS"]
  ELSE [act |-> "ok", status |-> "GOOGLE_OK"]

\* one GET of the current call; `accepted` marks the response whose text the
\* call cached and returned
GgGetEvent(pub_try, r, accepted) ==
  [pub_try |-> pub_try, with_en |-> gg_en, kind |-> r.kind, status |-> r.status,
   ctype |-> r.ctype, page |-> r.page, accepted |-> accepted]

\* cache/claims_google/<pub>.txt as the function finds it
GgCacheFile(pub) == IF pub \in DOMAIN gg_cache THEN gg_cache[pub] ELSE "absent"

\* A plausible slip: the file is named by the publication that resolved.
GgCacheWrite_Variant(pub, text) ==
  LET alt0 == us_insert_zero_variant(pub)
      key == IF alt0 # NoPub THEN alt0 ELSE pub
  IN [k \in DOMAIN gg_cache \cup {key} |-> IF k = key THEN text ELSE gg_cache[k]]

\* cache_file.write_text(claims_text)
GgCacheWrite(pub, text) ==
  [k \in DOMAIN gg_cache \cup {pub} |-> IF k = pub THEN text ELSE gg_cache[k]]

\* the GETs of the call: all of them for a stand-alone call, the latest one for
\* a call made by main
GgTraced(ev) == IF prog = "google" THEN Append(gg_trace, ev) ELSE <<ev>>

\* lines 339-358: empty publication, cache lookup, set-up of the loop
GgEnter(arg) ==
  /\ gg_calls' = gg_calls + 1
  /\ gg_arg' = arg
  /\ gg_trace' = <<>>
  /\ gg_idx' = 1
  /\ gg_en' = TRUE
  /\ gg_last' = "GOOGLE_404"
  /\ LET pub == SquashUpper(arg)
     IN IF pub = <<>>
          THEN /\ gg_result' = GgReturn(None, "GOOGLE_ERROR_EMPTY_PUBLICATION", NoPub)
               /\ gg_pc' = "returned"
        ELSE IF GgCacheFile(pub) \notin {"absent", ""}
          THEN /\ gg_result' = GgReturn(GgCacheFile(pub), "GOOGLE_OK(CACHE)", pub)
               /\ gg_pc' = "returned"
        ELSE /\ gg_result' = NoGgResult
             /\ gg_pc' = "loop"
  /\ UNCHANGED gg_cache

\* a call of fetch_claims_google_text on its own
GgCall(arg) ==
  /\ prog = "google"
  /\ gg_pc = "main"
  /\ gg_calls < MaxCalls
  /\ GgEnter(arg)
  /\ UNCHANGED <<prog, nonGgVars>>

\* lines 360-429: one GET and everything the function does until its next GET
GgGet(r) ==
  /\ prog \in {"google", "claims"}
  /\ gg_pc = "loop"
  /\ LET pub == SquashUpper(gg_arg)
         tries == pubs_to_try(pub)
         pub_try == tries[gg_idx]
         c == GgClassify(r)
     IN IF r.kind = "exc"
          THEN /\ gg_trace' = GgTraced(GgGetEvent(pub_try, r, FALSE))
               /\ gg_result' = GgReturn(None,
                                  IF gg_en THEN "GOOGLE_ERROR_REQUEST" ELSE "GOOGLE_ERROR_REQUEST2",
                                  NoPub)
               /\ gg_pc' = "returned"
               /\ UNCHANGED <<gg_cache, gg_idx, gg_en, gg_last>>
        ELSE IF gg_en /\ r.status = 404
          THEN /\ gg_trace' = GgTraced(GgGetEvent(pub_try, r, FALSE))
               /\ gg_en' = FALSE
               /\ UNCHANGED <<gg_cache, gg_idx, gg_last, gg_result, gg_pc>>
        ELSE IF c.act = "return"
          THEN /\ gg_trace' = GgTraced(GgGetEvent(pub_try, r, FALSE))
               /\ gg_result' = GgReturn(None, c.status, pub_try)
               /\ gg_pc' = "returned"
               /\ UNCHANGED <<gg_cache, gg_idx, gg_en, gg_last>>
        ELSE IF c.act = "continue"
          THEN /\ gg_trace' = GgTraced(GgGetEvent(pub_try, r, FALSE))
               /\ gg_last' = c.status
               /\ gg_en' = TRUE
               /\ IF gg_idx < Len(tries)
                    THEN /\ gg_idx' = gg_idx + 1
                         /\ UNCHANGED <<gg_result, gg_pc>>
                    ELSE /\ gg_result' = GgReturn(None, c.status, NoPub)
                         /\ gg_pc' = "returned"
                         /\ UNCHANGED gg_idx
               /\ UNCHANGED gg_cache
        ELSE /\ gg_trace' = GgTraced(GgGetEvent(pub_try, r, TRUE))
             /\ gg_cache' = GgCacheWrite(pub, ClaimsText(r.page))
             /\ gg_result' = GgReturn(ClaimsText(r.page),
                                IF gg_idx = 2 /\ pub_try = us_insert_zero_variant(pub)
                                  THEN "GOOGLE_OK_ALT0" ELSE "GOOGLE_OK",
                                pub_try)
             /\ gg_pc' = "returned"
             /\ UNCHANGED <<gg_idx, gg_en, gg_last>>
  /\ UNCHANGED <<prog, gg_calls, gg_arg, nonGgVars>>

\* the caller takes the returned triple; the call's locals are gone
GgReturned ==
  /\ prog = "google"
  /\ gg_pc = "returned"
  /\ gg_pc' = "main"
  /\ gg_arg' = NoPub
  /\ gg_trace' = <<>>
  /\ gg_result' = NoGgResult
  /\ gg_idx' = 1
  /\ gg_en' = TRUE
  /\ gg_last' = "GOOGLE_404"
  /\ UNCHANGED <<prog, gg_calls, gg_cache, nonGgVars>>

\* at most one file of an earlier run lies in cache/google_claims: an empty one
\* or one with claims text
GgInit ==
  /\ gg_pc = "main"
  /\ gg_calls = 0
  /\ gg_arg = NoPub
  /\ gg_cache \in {c \in [GgKeys -> {"absent", "", "cached text"}] :
                     Cardinality({k \in GgKeys : c[k] # "absent"}) <= 1}
  /\ gg_idx = 1
  /\ gg_en = TRUE
  /\ gg_last = "GOOGLE_404"
  /\ gg_trace = <<>>
  /\ gg_result = NoGgResult

GgIdle ==
  /\ gg_pc = "idle"
  /\ gg_calls = 0
  /\ gg_arg = NoPub
  /\ gg_cache = [k \in GgKeys |-> "absent"]
  /\ gg_idx = 1
  /\ gg_en = TRUE
  /\ gg_last = "GOOGLE_404"
  /\ gg_trace = <<>>
  /\ gg_result = NoGgResult

GgNext ==
  \/ \E arg \in GgArgs : GgCall(arg)
  \/ \E r \in GgResponses : GgGet(r)
  \/ GgReturned


----------------------------------------------------------------------------
(* sem_v2_02_fetch_google_fulltext.py: slugs, interstitial check, request_with_retry, main *)

\* the seeds file as read_seeds returns it: stripped, upper case, no duplicates
SemSeeds == {PubUS6, PubEP}

\* --max_fail when the option is not given
SemMaxFailDefault == 9999

SemMaxFailChoices == {1, SemMaxFailDefault}

\* ^(US)(\d{4})(\d+)([A-Z]\d?)$ : the length of group 3, 0 when no match
UsSerialLen(p) ==
  LET k == KindLen(p)
      n == Len(p)
  IN IF /\ k > 0
        /\ n >= 7 + k
        /\ p[1] = "U" /\ p[2] = "S"
        /\ AllDigits(SubSeq(p, 3, n - k))
     THEN n - k - 6
     ELSE 0

\* str.zfill(width)
zfill(s, width) == [i \in 1..(IF Len(s) < width THEN width - Len(s) ELSE 0) |-> "0"] \o s

\* us_insert_zero_variants: the serial padded to 7 and to 8 digits, without
\* what equals the input and without duplicates
us_insert_zero_variants(pub) ==
  LET p == UpperStr(Strip(pub))
      n == Len(p)
      k == KindLen(p)
      sl == UsSerialLen(p)
      v(width) == SubSeq(p, 1, 6) \o zfill(SubSeq(p, 7, n - k), width) \o SubSeq(p, n - k + 1, n)
  IN IF sl = 0 THEN <<>>
     ELSE (IF v(7) # p THEN <<v(7)>> ELSE <<>>)
            \o (IF v(8) # p /\ v(8) # v(7) THEN <<v(8)>> ELSE <<>>)

\* candidate_google_slugs: the publication itself, then its variants
candidate_google_slugs(pub) ==
  <<pub>> \o SelectSeq(us_insert_zero_variants(pub), LAMBDA v : v # pub)

\* looks_like_consent_or_robot: any indicator in the first <h1>, or in the first
\* 8000 characters "captcha", "unusual traffic", or "consent" together with "google"
looks_like_consent_or_robot(page) ==
  \/ page.h1 \cap Indicators # {}
  \/ "captcha" \in page.sample
  \/ "unusual traffic" \in page.sample
  \/ ("consent" \in page.sample /\ "google" \in page.sample)

\* extract_claims / extract_description on the parsed page
extract_claims(page) == ClaimsText(page)
extract_description(page) == IF page.content = "desc_only" THEN "description text" ELSE ""

SemStatuses == {200, 204, 403, 404, 429, 500, 502, 503, 504}

\* session.get raises a RequestException, or answers; the body is read at 200 only
SemResponses ==
  [kind : {"exc"}, status : {0}, page : {BlankPage}]
    \cup [kind : {"resp"}, status : SemStatuses, page : {BlankPage}]
    \cup [kind : {"resp"}, status : {200}, page : Pages]

\* resp.status_code in (429, 500, 502, 503, 504)
SemTransientStatuses == {429, 500, 502, 503, 504}

\* A plausible slip: the retry test admits one attempt more.
SemRetryAllowed_OneMore(attempt, max_retries) == attempt <= max_retries + 1

\* attempt <= max_retries
SemRetryAllowed(attempt, max_retries) == attempt <= max_retries

\* the fields of `rec` the loop sets, and the page it was built from
SemRec0(pub) ==
  [publication |-> pub, url |-> pub, http_status |-> 0, google_resolved_slug |-> NoPub,
   claims_raw |-> "", description_raw |-> "", status |-> "FAIL", reason |-> "",
   page |-> BlankPage]

NoRec == SemRec0(NoPub)

\* what sm_store keeps of a written record
Stored(rec) == [status |-> rec.status, reason |-> rec.reason]

NoFile == [status |-> "none", reason |-> ""]

NoReq == [gets |-> 0, open |-> FALSE, outcome |-> "none"]

\* out_path.exists()
OutPathExists(pub) == sm_store[pub] # NoFile

\* lines 332-374: the next seed of the for loop, the skip of a stored
\* publication, and the fresh `rec`
SemNextSeed(pub) ==
  /\ prog = "sem"
  /\ sm_pc = "head"
  /\ Cardinality(sm_done) < sm_input
  /\ pub \notin sm_done
  /\ sm_done' = sm_done \cup {pub}
  /\ IF OutPathExists(pub) /\ ~sm_overwrite
       THEN /\ sm_counters' = [sm_counters EXCEPT !.skipped_cached = @ + 1]
            /\ UNCHANGED <<sm_pc, sm_pub, sm_rec>>
       ELSE /\ sm_pc' = "get"
            /\ sm_pub' = pub
            /\ sm_rec' = SemRec0(pub)
            /\ UNCHANGED sm_counters
  /\ UNCHANGED <<sm_store, sm_slug, sm_attempt, sm_req, sm_out>>
  /\ UNCHANGED <<prog, sm_run, sm_input, sm_max_retries, sm_max_fail, sm_overwrite, nonSmVars>>

\* the seeds are used up: the loop ends and the reports are written
SemLoopEnd ==
  /\ prog = "sem"
  /\ sm_pc = "head"
  /\ Cardinality(sm_done) = sm_input
  /\ sm_pc' = "done"
  /\ UNCHANGED <<prog, sm_run, sm_input, sm_max_retries, sm_max_fail, sm_overwrite, sm_done, sm_store,
                 sm_counters, sm_pub, sm_slug, sm_attempt, sm_req, sm_rec, sm_out, nonSmVars>>

\* lines 479-485: the end of the loop body after the record is written; the
\* body's locals are dead from here on
SemIterEnd ==
  /\ prog = "sem"
  /\ sm_pc = "wrote"
  /\ sm_pc' = "head"
  /\ sm_pub' = NoPub
  /\ sm_slug' = 1
  /\ sm_attempt' = 0
  /\ sm_req' = NoReq
  /\ sm_rec' = NoRec
  /\ sm_out' = NoRec
  /\ UNCHANGED <<prog, sm_run, sm_input, sm_max_retries, sm_max_fail, sm_overwrite, sm_done, sm_store,
                 sm_counters, nonSmVars>>

\* lines 454-478 after an exception: count the failure, stop the loop at
\* max_fail, else write the record
SemFailed(rec, reason) ==
  LET r1 == [rec EXCEPT !.status = "FAIL",
                        !.reason = IF rec.reason # "" THEN rec.reason ELSE reason]
  IN /\ sm_counters' = [sm_counters EXCEPT !.fail = @ + 1]
     /\ sm_rec' = r1
     /\ IF sm_counters.fail + 1 >= sm_max_fail
          THEN /\ sm_pc' = "halted"
               /\ UNCHANGED <<sm_store, sm_out>>
          ELSE /\ sm_pc' = "wrote"
               /\ sm_store' = [sm_store EXCEPT ![rec.publication] = Stored(r1)]
               /\ sm_out' = r1

\* lines 409-452 and 478: the page passed the interstitial check
SemExtracted(rec, page) ==
  LET claims == extract_claims(page)
      desc == extract_description(page)
      ok == claims # "" \/ desc # ""
      r1 == [rec EXCEPT !.claims_raw = claims, !.description_raw = desc,
                        !.status = IF ok THEN "OK" ELSE "FAIL",
                        !.reason = IF ok THEN rec.reason ELSE "NO_TEXT_FOUND"]
  IN /\ sm_counters' = IF ok THEN [sm_counters EXCEPT !.ok = @ + 1]
                             ELSE [sm_counters EXCEPT !.fail_no_text = @ + 1]
     /\ sm_rec' = r1
     /\ sm_pc' = "wrote"
     /\ sm_store' = [sm_store EXCEPT ![rec.publication] = Stored(r1)]
     /\ sm_out' = r1

\* line 341: slug_attempts = candidate_google_slugs(pub), for each seed
SemSlugAttempts == [pub \in SemSeeds |-> candidate_google_slugs(pub)]

\* One session.get of request_with_retry (lines 264-288) and whatever main does
\* with its outcome before the next GET (lines 376-478).
SemGet(r) ==
  /\ prog = "sem"
  /\ sm_pc = "get"
  /\ LET slugs == SemSlugAttempts[sm_pub]
         slug == slugs[sm_slug]
         attempt == sm_attempt + 1
         gets == (IF sm_req.open THEN sm_req.gets ELSE 0) + 1
         retriable == r.kind = "exc" \/ r.status \in SemTransientStatuses
     IN IF retriable /\ SemRetryAllowed(attempt, sm_max_retries)
          THEN /\ sm_attempt' = attempt
               /\ sm_req' = [gets |-> gets, open |-> TRUE, outcome |-> "none"]
               /\ UNCHANGED <<sm_pc, sm_slug, sm_rec, sm_store, sm_counters, sm_out>>
        ELSE IF r.kind = "exc"
          THEN /\ sm_attempt' = attempt
               /\ sm_req' = [gets |-> gets, open |-> FALSE, outcome |-> "raised"]
               /\ SemFailed(sm_rec, "HTTP_OR_PARSE_ERROR")
               /\ UNCHANGED sm_slug
        ELSE LET rec == [sm_rec EXCEPT !.http_status = r.status, !.url = slug, !.page = r.page]
             IN /\ sm_req' = [gets |-> gets, open |-> FALSE, outcome |-> "returned"]
                /\ IF r.status = 200
                     THEN /\ sm_attempt' = attempt
                          /\ UNCHANGED sm_slug
                          /\ IF looks_like_consent_or_robot(r.page)
                               THEN SemFailed([rec EXCEPT !.google_resolved_slug = slug,
                                                          !.reason = "CONSENT_OR_ROBOT_PAGE"],
                                              "HTTP_OR_PARSE_ERROR")
                               ELSE SemExtracted([rec EXCEPT !.google_resolved_slug = slug],
                                                 r.page)
                   ELSE IF sm_slug < Len(slugs)
                     THEN /\ sm_slug' = sm_slug + 1
                          /\ sm_attempt' = 0
                          /\ sm_rec' = rec
                          /\ UNCHANGED <<sm_pc, sm_store, sm_counters, sm_out>>
                   ELSE /\ sm_attempt' = attempt
                        /\ UNCHANGED sm_slug
                        /\ SemFailed([rec EXCEPT !.reason = "HTTP_NON_200"], "HTTP_OR_PARSE_ERROR")
  /\ UNCHANGED <<prog, sm_run, sm_input, sm_max_retries, sm_max_fail, sm_overwrite, sm_done, sm_pub,
                 nonSmVars>>

SemCounters0 == [fail |-> 0, ok |-> 0, skipped_cached |-> 0, fail_no_text |-> 0]

\* The script is started again with the same seeds file and --run_id, so with the
\* same google_raw directory, and without --overwrite.
SemRunAgain ==
  /\ prog = "sem"
  /\ sm_pc \in {"done", "halted"}
  /\ sm_run < MaxRuns
  /\ sm_run' = sm_run + 1
  /\ sm_overwrite' = FALSE
  /\ sm_pc' = "head"
  /\ sm_done' = {}
  /\ sm_counters' = SemCounters0
  /\ sm_pub' = NoPub
  /\ sm_slug' = 1
  /\ sm_attempt' = 0
  /\ sm_req' = NoReq
  /\ sm_rec' = NoRec
  /\ sm_out' = NoRec
  /\ UNCHANGED <<prog, sm_input, sm_max_retries, sm_max_fail, sm_store, nonSmVars>>

SemInit ==
  /\ sm_pc = "head"
  /\ sm_run = 1
  /\ sm_input \in 0..(IF MaxSeeds < Cardinality(SemSeeds) THEN MaxSeeds ELSE Cardinality(SemSeeds))
  /\ sm_max_retries \in 0..MaxRetriesArg
  /\ sm_max_fail \in SemMaxFailChoices
  /\ sm_overwrite \in BOOLEAN
  /\ sm_done = {}
  /\ sm_store = [p \in SemSeeds |-> NoFile]
  /\ sm_counters = SemCounters0
  /\ sm_pub = NoPub
  /\ sm_slug = 1
  /\ sm_attempt = 0
  /\ sm_req = NoReq
  /\ sm_rec = NoRec
  /\ sm_out = NoRec

SemIdle ==
  /\ sm_pc = "idle"
  /\ sm_run = 0
  /\ sm_input = 0
  /\ sm_max_retries = 0
  /\ sm_max_fail = SemMaxFailDefault
  /\ sm_overwrite = FALSE
  /\ sm_done = {}
  /\ sm_store = [p \in SemSeeds |-> NoFile]
  /\ sm_counters = SemCounters0
  /\ sm_pub = NoPub
  /\ sm_slug = 1
  /\ sm_attempt = 0
  /\ sm_req = NoReq
  /\ sm_rec = NoRec
  /\ sm_out = NoRec

SemNext ==
  \/ \E pub \in SemSeeds : SemNextSeed(pub)
  \/ SemRunAgain
  \/ SemLoopEnd
  \/ SemIterEnd
  \/ \E r \in SemResponses : SemGet(r)

----------------------------------------------------------------------------
(* step_c_lineage_gate.py *)

\* JSON values of a record's text fields: a string, null (or the key is absent),
\* or a value of another type
JStr(chars) == [kind |-> "str", s |-> chars]
JNull == [kind |-> "null", s |-> <<>>]
JOther == [kind |-> "other", s |-> <<>>]

\* is_nonempty_str
is_nonempty_str(x) == x.kind = "str" /\ Strip(x.s) # <<>>

\* A plausible slip: one required flag only.
REQUIRED_FLAGS_OneFlag == {"THIRD_PARTY_SOURCE"}

REQUIRED_FLAGS == {"THIRD_PARTY_SOURCE", "COVERAGE_FALLBACK"}

GateSourcePrefix == <<"G", "O", "O", "G", "L", "E", "_", "F", "A", "L", "L", "B", "A", "C", "K", "_">>

\* str.startswith
StartsWith(str, prefix) == Len(str) >= Len(prefix) /\ SubSeq(str, 1, Len(prefix)) = prefix

\* governance_flags: whether the value is a list, and its items (each a string or not)
JFlags(items) == [list |-> TRUE, items |-> items]
FlagStr(v) == [str |-> TRUE, v |-> v]

\* validate_google_row: the reasons it collects; on_disk is what os.path.isfile
\* answers for the record's claims_google_text_path
validate_google_row(row, check_files) ==
  IF row.claims_source # "GOOGLE" THEN {}
  ELSE
    (IF ~is_nonempty_str(row.google_seed_publication) THEN {"MISSING google_seed_publication"} ELSE {})
    \cup (IF ~is_nonempty_str(row.google_resolved_publication)
            THEN {"MISSING google_resolved_publication"} ELSE {})
    \cup (IF ~is_nonempty_str(row.google_status) THEN {"MISSING google_status"} ELSE {})
    \cup (IF ~is_nonempty_str(row.claims_google_text_path)
            THEN {"MISSING claims_google_text_path"} ELSE {})
    \cup (LET flags == row.governance_flags
          IN IF ~flags.list \/ \E i \in 1..Len(flags.items) : ~flags.items[i].str
               THEN {"governance_flags is not an array[str]"}
             ELSE IF REQUIRED_FLAGS \ {flags.items[i].v : i \in 1..Len(flags.items)} # {}
               THEN {"Missing governance_flags"}
             ELSE {})
    \cup (IF ~is_nonempty_str(row.selected_source) THEN {"MISSING selected_source"}
          ELSE IF ~StartsWith(row.selected_source.s, GateSourcePrefix)
            THEN {"selected_source must start with GOOGLE_FALLBACK_"}
          ELSE {})
    \cup (IF check_files /\ is_nonempty_str(row.claims_google_text_path) /\ ~row.on_disk
            THEN {"TXT file not found"} ELSE {})

\* main: the exit code for a batch; `readable` is false when load_jsonl raises
\* (the file cannot be opened or a line is not JSON)
lineage_gate_main(rows, check_files, readable) ==
  IF ~readable THEN 2
  ELSE LET google_rows == SelectSeq(rows, LAMBDA r : r.claims_source = "GOOGLE")
       IN IF google_rows = <<>> THEN 0
          ELSE IF \E i \in 1..Len(google_rows) :
                     validate_google_row(google_rows[i], check_files) # {}
            THEN 1
          ELSE 0

\* a secondary-sourced record with complete lineage, its text file on disk
GateGoodRow ==
  [claims_source |-> "GOOGLE",
   google_seed_publication |-> JStr(PubUS6),
   google_resolved_publication |-> JStr(PubUS7),
   google_status |-> JStr(<<"O", "K">>),
   claims_google_text_path |-> JStr(<<"p">>),
   governance_flags |-> JFlags(<<FlagStr("THIRD_PARTY_SOURCE"), FlagStr("COVERAGE_FALLBACK")>>),
   selected_source |-> JStr(GateSourcePrefix \o <<"S", "E", "E", "D">>),
   on_disk |-> TRUE]

\* values a text field takes besides a proper string
GateBadTexts == {JNull, JStr(<<>>), JStr(<<" ">>), JOther}

GateFlagValues ==
  { [list |-> FALSE, items |-> <<>>],
    JFlags(<<>>),
    JFlags(<<FlagStr("THIRD_PARTY_SOURCE")>>),
    JFlags(<<FlagStr("COVERAGE_FALLBACK")>>),
    JFlags(<<FlagStr("THIRD_PARTY_SOURCE"), FlagStr("COVERAGE_FALLBACK"),
             [str |-> FALSE, v |-> "7"]>>),
    JFlags(<<FlagStr("GOOGLE_ATTEMPTED"), FlagStr("COVERAGE_FALLBACK"),
             FlagStr("THIRD_PARTY_SOURCE")>>) }

GateSourceValues ==
  { JNull, JStr(<<" ">>), JStr(<<"D", "I", "R", "E", "C", "T">>), JStr(GateSourcePrefix),
    JStr(<<"X">> \o GateSourcePrefix), JStr(<<"G", "O", "O", "G", "L", "E", "_", "F", "A", "L", "L", "B", "A", "C", "K">>) }

\* the records of claims_representation_v3.jsonl given to the gate: the complete
\* one, the ones that differ from it in one field, and records of other sources
\* with no lineage field at all
GateRows ==
  {GateGoodRow}
    \cup {[GateGoodRow EXCEPT !.google_seed_publication = x] : x \in GateBadTexts}
    \cup {[GateGoodRow EXCEPT !.google_resolved_publication = x] : x \in GateBadTexts}
    \cup {[GateGoodRow EXCEPT !.google_status = x] : x \in GateBadTexts}
    \cup {[GateGoodRow EXCEPT !.claims_google_text_path = x] : x \in GateBadTexts}
    \cup {[GateGoodRow EXCEPT !.governance_flags = x] : x \in GateFlagValues}
    \cup {[GateGoodRow EXCEPT !.selected_source = x] : x \in GateSourceValues}
    \cup {[GateGoodRow EXCEPT !.on_disk = FALSE]}
    \cup {[claims_source |-> src,
           google_seed_publication |-> JNull, google_resolved_publication |-> JNull,
           google_status |-> JNull, claims_google_text_path |-> JNull,
           governance_flags |-> JFlags(<<>>),
           selected_source |-> IF src = "OPS" THEN JStr(<<"D", "I", "R", "E", "C", "T">>) ELSE JNull,
           on_disk |-> FALSE] : src \in {"OPS", None}}

\* the batches given to the gate
GateBatches == SeqsUpTo(GateRows, MaxBatch)

----------------------------------------------------------------------------
(* step_c2_build_chunks_v2.py: claims segmentation.  A text is a sequence of
   tokens: single characters (blank, line break, digits, ".", ")", ":"), and
   tokens that stand for a run of other characters: a word or phrase (which may
   hold single blanks but no line break), one of the three non-Latin claim
   marker words, or the header phrase "Claims (2)". *)

Blank == " "
LineBreak == "\n"

\* what \s matches
WhiteSpace == {Blank, LineBreak}

\* [\.):]
MarkerPunct == {".", ")", ":"}

\* the marker words of _RE_JP_START, _RE_CN_START, _RE_KR_START
JpMarker == "JP_MARKER"
CnMarker == "CN_MARKER"
KrMarker == "KR_MARKER"
CjkMarkers == {JpMarker, CnMarker, KrMarker}

\* the phrase "Claims (2)", which `claims?\s*\(\s*\d+\s*\)` matches
ClaimsHeader == "Claims (2)"

RECURSIVE RunEnd(_, _, _)
\* the position after the longest run of characters of `class` that starts at i
RunEnd(txt, i, class) ==
  IF i <= Len(txt) /\ txt[i] \in class THEN RunEnd(txt, i + 1, class) ELSE i

RECURSIVE RunStart(_, _, _)
\* the position before the longest run of characters of `class` that ends at i
RunStart(txt, i, class) ==
  IF i >= 1 /\ txt[i] \in class THEN RunStart(txt, i - 1, class) ELSE i

\* str.strip() for a text: blanks and line breaks go
StripText(txt) ==
  SubSeq(txt, RunEnd(txt, 1, WhiteSpace), RunStart(txt, Len(txt), WhiteSpace))

RECURSIVE SqueezeBlanks(_)
\* _RE_WS.sub(" ", t): a run of blanks becomes one blank
SqueezeBlanks(t) ==
  IF t = <<>> THEN <<>>
  ELSE IF Head(t) = Blank
    THEN <<Blank>> \o SqueezeBlanks(SubSeq(t, RunEnd(t, 1, {Blank}), Len(t)))
  ELSE <<Head(t)>> \o SqueezeBlanks(Tail(t))

RECURSIVE SqueezeBreaks(_)
\* _RE_MULTIBLANK.sub("\n\n", t): three or more line breaks become two
SqueezeBreaks(t) ==
  IF t = <<>> THEN <<>>
  ELSE IF Head(t) = LineBreak
    THEN LET e == RunEnd(t, 1, {LineBreak})
         IN (IF e - 1 >= 3 THEN <<LineBreak, LineBreak>> ELSE SubSeq(t, 1, e - 1))
              \o SqueezeBreaks(SubSeq(t, e, Len(t)))
  ELSE <<Head(t)>> \o SqueezeBreaks(Tail(t))

\* normalize_text
normalize_text(t) == StripText(SqueezeBreaks(SqueezeBlanks(StripText(t))))

\* where ^\s*claims?\s*\(\s*\d+\s*\)\s* ends in txt, 0 when it does not match
HeaderInlineEnd(txt) ==
  LET a == RunEnd(txt, 1, WhiteSpace)
  IN IF a <= Len(txt) /\ txt[a] = ClaimsHeader THEN RunEnd(txt, a + 1, WhiteSpace) ELSE 0

\* a run of white space from i that holds a line break: the position after the
\* run, 0 when there is no such run
BreakRunEnd(txt, i) ==
  LET e == RunEnd(txt, i, WhiteSpace)
  IN IF \E k \in i..(e - 1) : txt[k] = LineBreak THEN e ELSE 0

\* _RE_CLAIMS_HEADER_BLOCK, first part: the header at a, then line breaks; the
\* position after them, 0 when it does not match
HeaderWordEnd(txt, a) ==
  IF a <= Len(txt) /\ txt[a] = ClaimsHeader THEN BreakRunEnd(txt, a + 1) ELSE 0

\* the optional part (?:\d+\s*\n\s*)? from b, where the digits end at d: the
\* position after it, 0 when it does not match
HeaderCountEnd(txt, b, d) ==
  IF b # 0 /\ d > b THEN BreakRunEnd(txt, d) ELSE 0

\* where the ")" of the block header is: after the optional part, which ends
\* at e, or at b without it; 0 when there is none
HeaderParenAt(txt, b, e) ==
  IF b = 0 THEN 0
  ELSE IF e # 0 /\ e <= Len(txt) /\ txt[e] = ")" THEN e
  ELSE IF b <= Len(txt) /\ txt[b] = ")" THEN b
  ELSE 0

\* the line breaks after the ")" at c
HeaderTailEnd(txt, c) ==
  IF c = 0 THEN 0 ELSE BreakRunEnd(txt, c + 1)

\* the block header from the position b after its first part
HeaderBlockRest(txt, b) ==
  HeaderTailEnd(txt, HeaderParenAt(txt, b,
    HeaderCountEnd(txt, b, IF b = 0 THEN 0 ELSE RunEnd(txt, b, Digits))))

\* where _RE_CLAIMS_HEADER_BLOCK ends in txt, 0 when it does not match: the
\* header, line breaks, optionally a number and line breaks, ")" and line breaks
HeaderBlockEnd(txt) ==
  HeaderBlockRest(txt, HeaderWordEnd(txt, RunEnd(txt, 1, WhiteSpace)))

\* the two .sub("", t, count=1).strip() of strip_google_claims_header, given
\* where each pattern ends in txt
CutHeader(txt, block_end, inline_end) ==
  IF block_end # 0 THEN StripText(SubSeq(txt, block_end, Len(txt)))
  ELSE IF inline_end # 0 THEN StripText(SubSeq(txt, inline_end, Len(txt)))
  ELSE txt

\* strip_google_claims_header for a stripped text
StripHeader(txt) == CutHeader(txt, HeaderBlockEnd(txt), HeaderInlineEnd(txt))

\* strip_google_claims_header
strip_google_claims_header(claims_raw) == StripHeader(StripText(claims_raw))

\* where ^\s*1\s*[\.):]\s* ends in line, 0 when it does not match
OnePrefixEnd(line) ==
  LET a == RunEnd(line, 1, WhiteSpace)
      c == RunEnd(line, a + 1, WhiteSpace)
  IN IF a <= Len(line) /\ line[a] = "1" /\ c <= Len(line) /\ line[c] \in MarkerPunct
       THEN RunEnd(line, c + 1, WhiteSpace)
     ELSE 0

\* re.sub(pattern, "", s), for a pattern anchored at the start that ends at e
\* in s (0 when it does not match)
CutPrefix(s, e) == IF e # 0 THEN SubSeq(s, e, Len(s)) ELSE s

\* strip_numbering_prefix
strip_numbering_prefix(line) == StripText(CutPrefix(line, OnePrefixEnd(line)))

\* \s*(\d{1,4})\s*[\.):]\s+ tried at position p: [no, end], end = 0 when it
\* does not match there
NumMarkerAt(txt, p) ==
  LET a == RunEnd(txt, p, WhiteSpace)
      b == RunEnd(txt, a, Digits)
      c == RunEnd(txt, b, WhiteSpace)
      e == RunEnd(txt, c + 1, WhiteSpace)
  IN IF b - a \in 1..4 /\ c <= Len(txt) /\ txt[c] \in MarkerPunct /\ e > c + 1
       THEN [no |-> SubSeq(txt, a, b - 1), end |-> e]
     ELSE [no |-> <<>>, end |-> 0]

NoMarker == [no |-> <<>>, end |-> 0]

RECURSIVE NumMatches(_, _)
RECURSIVE NumMatchesAt(_, _, _)
\* finditer at position p, where the pattern matches as m says: the match and
\* the search from its end, or the search from the next position
NumMatchesAt(txt, p, m) ==
  IF m.end # 0
    THEN <<[no |-> m.no, start |-> p, end |-> m.end]>> \o NumMatches(txt, m.end)
  ELSE NumMatches(txt, p + 1)

\* _RE_NUM_CLAIM_START.finditer(txt) from position p on: the matches, each with
\* its group 1, m.start() and m.end() (one past the last character)
NumMatches(txt, p) ==
  IF p > Len(txt) THEN <<>>
  ELSE NumMatchesAt(txt, p, IF p = 1 \/ txt[p - 1] = LineBreak
                              THEN NumMarkerAt(txt, p) ELSE NoMarker)

RECURSIVE ToInt(_)
\* int(s) for a string of digits
ToInt(ds) ==
  IF ds = <<>> THEN 0
  ELSE 10 * ToInt(SubSeq(ds, 1, Len(ds) - 1))
         + (CHOOSE v \in 0..9 : ToString(v) = ds[Len(ds)])

\* re.sub(r"^\s*\d{1,4}\s*[\.):]\s+", "", seg)
StripNumPrefix(seg) == CutPrefix(seg, NumMarkerAt(seg, 1).end)

\* claims[no] = seg unless no is a key already or seg is empty
KeepFirst(claims, no, seg) ==
  IF no \in DOMAIN claims \/ seg = <<>> THEN claims
  ELSE [k \in DOMAIN claims \cup {no} |-> IF k = no THEN seg ELSE claims[k]]

RECURSIVE NumClaims(_, _, _, _)
\* the loop over spans of the numbered strategy, from match idx on
NumClaims(txt, matches, idx, claims) ==
  IF idx > Len(matches) THEN claims
  ELSE LET end == IF idx + 1 <= Len(matches) THEN matches[idx + 1].start - 1 ELSE Len(txt)
           seg == normalize_text(StripText(StripNumPrefix(
                    StripText(SubSeq(txt, matches[idx].start, end)))))
       IN NumClaims(txt, matches, idx + 1, KeepFirst(claims, ToInt(matches[idx].no), seg))

\* a marker word, \s*, and [0-9]+ tried at position p: [no, end], end = 0 when
\* it does not match there
CjkMarkerAt(txt, p, words) ==
  LET a == RunEnd(txt, p + 1, WhiteSpace)
      b == RunEnd(txt, a, Digits)
  IN IF p <= Len(txt) /\ txt[p] \in words /\ b > a
       THEN [no |-> SubSeq(txt, a, b - 1), end |-> b]
     ELSE [no |-> <<>>, end |-> 0]

\* the starts of the matches of the three marker patterns, merged
CjkStarts(txt) ==
  UNION {{p \in 1..Len(txt) : CjkMarkerAt(txt, p, {w}).end # 0} : w \in CjkMarkers}

\* the end of ^(marker)\s*[0-9]+\s* in seg, given the end e of the marker and
\* its number (0 when they do not match)
CjkPrefixEnd(seg, e) == IF e # 0 THEN RunEnd(seg, e, WhiteSpace) ELSE 0

\* re.sub(r"^(marker)\s*[0-9]+\s*", "", seg)
StripCjkPrefix(seg) == CutPrefix(seg, CjkPrefixEnd(seg, CjkMarkerAt(seg, 1, CjkMarkers).end))

RECURSIVE CjkClaims(_, _, _, _)
\* the loop over the markers sorted by position, from position `from` on
CjkClaims(txt, starts, from, claims) ==
  IF \A p \in starts : p < from THEN claims
  ELSE LET pos == CHOOSE p \in starts : p >= from /\ \A q \in starts : q >= from => p <= q
           later == {q \in starts : q > pos}
           end == IF later = {} THEN Len(txt)
                  ELSE (CHOOSE q \in later : \A r \in later : q <= r) - 1
           seg == normalize_text(StripText(StripCjkPrefix(StripText(SubSeq(txt, pos, end)))))
       IN CjkClaims(txt, starts, pos + 1,
                    KeepFirst(claims, ToInt(CjkMarkerAt(txt, pos, CjkMarkers).no), seg))

NoClaims == [k \in {} |-> <<>>]

ParsedClaims(method, claims_by_no, raw_cleaned) ==
  [method |-> method, claims_by_no |-> claims_by_no, raw_cleaned |-> raw_cleaned]

\* A plausible slip: the non-Latin markers are tried before the Latin numbering.
ChooseStrategy_CjkFirst(txt, matches, numbered, markers, cjk) ==
  IF markers # {} /\ DOMAIN cjk # {}
    THEN ParsedClaims("CJK_MARKER", cjk, normalize_text(txt))
  ELSE IF matches # <<>> /\ DOMAIN numbered # {}
    THEN ParsedClaims("NUMBERED", numbered, normalize_text(txt))
  ELSE ParsedClaims("UNNUMBERED_FALLBACK", NoClaims, normalize_text(txt))

\* the three strategies of parse_claims_to_map in their order, given the
\* matches and the claims each of the first two finds
ChooseStrategy(txt, matches, numbered, markers, cjk) ==
  IF matches # <<>> /\ DOMAIN numbered # {}
    THEN ParsedClaims("NUMBERED", numbered, normalize_text(txt))
  ELSE IF markers # {} /\ DOMAIN cjk # {}
    THEN ParsedClaims("CJK_MARKER", cjk, normalize_text(txt))
  ELSE ParsedClaims("UNNUMBERED_FALLBACK", NoClaims, normalize_text(txt))

\* parse_claims_to_map from the matches of both kinds on
ParseMatched(txt, matches, markers) ==
  ChooseStrategy(txt, matches, NumClaims(txt, matches, 1, NoClaims),
                 markers, CjkClaims(txt, markers, 1, NoClaims))

\* parse_claims_to_map after the header is stripped
ParseStripped(txt) == ParseMatched(txt, NumMatches(txt, 1), CjkStarts(txt))

\* parse_claims_to_map
parse_claims_to_map(claims_raw) ==
  ParseStripped(StripText(strip_google_claims_header(claims_raw)))

RECURSIVE JoinAscending_Descending(_, _)
\* A plausible slip: the keys are taken in descending order.
JoinAscending_Descending(claims, nos) ==
  IF nos = {} THEN <<>>
  ELSE LET n == CHOOSE x \in nos : \A y \in nos : x >= y
           rest == JoinAscending_Descending(claims, nos \ {n})
       IN IF claims[n] = <<>> THEN rest
          ELSE IF rest = <<>> THEN claims[n]
          ELSE claims[n] \o <<LineBreak, LineBreak>> \o rest

RECURSIVE JoinAscending(_, _)
\* "\n\n".join(claims_by_no[n] for n in sorted(keys) if claims_by_no.get(n)),
\* for the keys in nos
JoinAscending(claims, nos) ==
  IF nos = {} THEN <<>>
  ELSE LET n == CHOOSE x \in nos : \A y \in nos : x <= y
           rest == JoinAscending(claims, nos \ {n})
       IN IF claims[n] = <<>> THEN rest
          ELSE IF rest = <<>> THEN claims[n]
          ELSE claims[n] \o <<LineBreak, LineBreak>> \o rest

\* the first paragraph of claimset.split("\n\n") that is not blank
FirstParagraph(claimset) ==
  LET cuts == {i \in 1..(Len(claimset) - 1) : claimset[i] = LineBreak /\ claimset[i + 1] = LineBreak}
  IN IF claimset = <<>> THEN <<>>
     ELSE IF cuts = {} THEN StripText(claimset)
     ELSE StripText(SubSeq(claimset, 1, (CHOOSE i \in cuts : \A j \in cuts : i <= j) - 1))

\* extract_claim1_and_claimset when parsing found claims: c1a is claim 1 and
\* joined the claim set as first computed
ExtractSegmented(parsed, c1a, joined) ==
  [claim1 |-> IF c1a # <<>> THEN c1a
              ELSE strip_numbering_prefix(normalize_text(parsed.claims_by_no[
                     CHOOSE x \in DOMAIN parsed.claims_by_no :
                       \A y \in DOMAIN parsed.claims_by_no : x <= y])),
   claimset |-> IF joined # <<>> THEN joined ELSE normalize_text(parsed.raw_cleaned),
   method |-> parsed.method,
   quality |-> IF c1a # <<>> /\ joined # <<>> THEN "HIGH" ELSE "LOW",
   reason |-> IF c1a = <<>> THEN "CLAIM1_NOT_FOUND_FALLBACK_TO_FIRST"
              ELSE IF joined = <<>> THEN "CLAIMSET_EMPTY_AFTER_PARSE"
              ELSE None]

\* extract_claim1_and_claimset when parsing found no claims: fallback is the
\* normalized cleaned text
ExtractUnnumbered(method, fallback) ==
  [claim1 |-> strip_numbering_prefix(normalize_text(FirstParagraph(fallback))),
   claimset |-> fallback, method |-> method,
   quality |-> "LOW", reason |-> "UNNUMBERED_FALLBACK"]

\* extract_claim1_and_claimset from the result of parse_claims_to_map on
ExtractParsed(parsed) ==
  IF parsed.method \in {"NUMBERED", "CJK_MARKER"} /\ DOMAIN parsed.claims_by_no # {}
    THEN ExtractSegmented(parsed,
           strip_numbering_prefix(normalize_text(
             IF 1 \in DOMAIN parsed.claims_by_no THEN parsed.claims_by_no[1] ELSE <<>>)),
           normalize_text(JoinAscending(parsed.claims_by_no, DOMAIN parsed.claims_by_no)))
  ELSE ExtractUnnumbered(parsed.method, normalize_text(parsed.raw_cleaned))

\* extract_claim1_and_claimset: claim1_text, claimset_text and the meta fields
extract_claim1_and_claimset(claims_raw) == ExtractParsed(parse_claims_to_map(claims_raw))

----------------------------------------------------------------------------
(* Pure functions, applied to inputs from bounded sets *)

\* one application of build_try_list
BuildTryListCall(proc, candidate) ==
  /\ prog = "pure"
  /\ pf_fn = "none"
  /\ pf_fn' = "build_try_list"
  /\ pf_arg' = [proc |-> proc, candidate |-> candidate]
  /\ pf_res' = build_try_list(proc, candidate)
  /\ pf_code' = -1
  /\ UNCHANGED <<prog, nonPfVars>>

\* one run of the lineage gate
LineageGateCall(rows, check_files, readable) ==
  /\ prog = "pure"
  /\ pf_fn = "none"
  /\ pf_fn' = "lineage_gate"
  /\ pf_arg' = [rows |-> rows, check_files |-> check_files, readable |-> readable]
  /\ pf_res' = <<>>
  /\ pf_code' = lineage_gate_main(rows, check_files, readable)
  /\ UNCHANGED <<prog, nonPfVars>>

\* the parts of the identifiers given to the zero-padding variant generators:
\* serials of 5 to 8 digits, two years, two kind codes, two country codes
ZeroPadSerials ==
  {<<"7", "2", "5", "7", "4">>,
   <<"3", "7", "2", "5", "7", "4">>,
   <<"1", "3", "7", "2", "5", "7", "4">>,
   <<"1", "1", "3", "7", "2", "5", "7", "4">>}

ZeroPadInputs ==
  [cc : {<<"U", "S">>, <<"E", "P">>},
   year : {<<"2", "0", "2", "1">>, <<"1", "9", "9", "9">>},
   serial : ZeroPadSerials,
   kind : {<<"A", "1">>, <<"B">>}]

\* the identifier written from its parts
ZeroPadPub(x) == x.cc \o x.year \o x.serial \o x.kind

\* one application of _us_insert_zero_variant (step_c); None gives no alternate
UsInsertZeroVariantCall(x) ==
  /\ prog = "pure"
  /\ pf_fn = "none"
  /\ pf_fn' = "_us_insert_zero_variant"
  /\ pf_arg' = x
  /\ pf_res' = LET alt0 == us_insert_zero_variant(ZeroPadPub(x))
                IN IF alt0 = NoPub THEN <<>> ELSE <<alt0>>
  /\ pf_code' = -1
  /\ UNCHANGED <<prog, nonPfVars>>

\* one application of us_insert_zero_variants (sem_v2_02)
UsInsertZeroVariantsCall(x) ==
  /\ prog = "pure"
  /\ pf_fn = "none"
  /\ pf_fn' = "us_insert_zero_variants"
  /\ pf_arg' = x
  /\ pf_res' = us_insert_zero_variants(ZeroPadPub(x))
  /\ pf_code' = -1
  /\ UNCHANGED <<prog, nonPfVars>>

\* raw publication strings given to the normalizers
NormRaw ==
  { <<"U", "S", "1", "2", "3", "4", "A", "1">>,
    <<"u", "s", " ", "1", "2", "3", "4", " ", "a", "1">>,
    <<" ", "e", "p", "1", "2", "3", "4", "5", "b", " ">>,
    <<"U", "S", "1", "2", "3", "4", "B">>,
    <<"U", "S", "1", "2", "3", "4", "5", " ", "A">>,
    <<"U", "S", "1", "2", "3", "4", "P">>,
    <<"U", "S", "1", "2", "A", "4", "B", "1">>,
    <<"U", "S", "1", "A">>,
    <<"U", "S", "1", "A", "1">>,
    <<"1", "2", "3", "4", "5", "A", "1">>,
    <<"U", "S", "1", "2", "3", "4", "5">>,
    <<"U", "S", "A", "1">>,
    <<>> }

\* strings in the form CC.NNN.KK
NormCanonical ==
  { <<"U", "S", ".", "1", "2", "3", "4", ".", "A", "1">>,
    <<"E", "P", ".", "1", "2", "3", "4", "5", ".", "B">>,
    <<"U", "S", ".", "1", ".", "A">> }

\* the two normalizers by name
Normalize(fn, x) == IF fn = "to_docdb" THEN to_docdb(x) ELSE to_dotted_from_concat(x)

NormFns == {"to_docdb", "to_dotted_from_concat"}

\* normalize(x) and normalize(normalize(x)) for a string x in canonical form
\* (raw = <<>>) or for x the result of normalizing an accepted raw string
NormalizeTwiceCall(fn, raw, x) ==
  /\ prog = "pure"
  /\ pf_fn = "none"
  /\ pf_fn' = fn
  /\ pf_arg' = [twice |-> TRUE, raw |-> raw, x |-> x]
  /\ pf_res' = <<Normalize(fn, x), Normalize(fn, Normalize(fn, x))>>
  /\ pf_code' = -1
  /\ UNCHANGED <<prog, nonPfVars>>

\* one application of parse_concat_pub: the triple, <<>> for None
ParseConcatPubCall(raw) ==
  /\ prog = "pure"
  /\ pf_fn = "none"
  /\ pf_fn' = "parse_concat_pub"
  /\ pf_arg' = [twice |-> FALSE, raw |-> raw, p |-> SquashUpper(raw)]
  /\ pf_res' = parse_concat_pub(raw)
  /\ pf_code' = -1
  /\ UNCHANGED <<prog, nonPfVars>>

\* one application of to_docdb to a raw string: <<the dotted string>>, <<>> for None
ToDocdbCall(raw) ==
  /\ prog = "pure"
  /\ pf_fn = "none"
  /\ pf_fn' = "to_docdb"
  /\ pf_arg' = [twice |-> FALSE, raw |-> raw, p |-> UpperStr(Strip(raw))]
  /\ pf_res' = IF to_docdb(raw) = <<>> THEN <<>> ELSE <<to_docdb(raw)>>
  /\ pf_code' = -1
  /\ UNCHANGED <<prog, nonPfVars>>

\* phrases of claim bodies
LampClaim == "A lamp comprising a base."
DiffuserClaim == "The lamp of claim 1, further comprising a diffuser."
MethodPhrase == "A method comprising:"
HeatingPhrase == "heating."

\* Claim bodies as they stand in the text (raw), as normalize_text leaves them
\* (clean), and without a leading "1."-style marker (first).
SegBodies ==
  { [raw |-> <<LampClaim>>, clean |-> <<LampClaim>>, first |-> <<LampClaim>>],
    [raw |-> <<DiffuserClaim>>, clean |-> <<DiffuserClaim>>, first |-> <<DiffuserClaim>>],
    [raw |-> <<MethodPhrase, Blank, Blank, LineBreak, LineBreak, LineBreak, HeatingPhrase>>,
     clean |-> <<MethodPhrase, Blank, LineBreak, LineBreak, HeatingPhrase>>,
     first |-> <<MethodPhrase, Blank, LineBreak, LineBreak, HeatingPhrase>>],
    [raw |-> <<"1", ")", Blank, HeatingPhrase>>,
     clean |-> <<"1", ")", Blank, HeatingPhrase>>,
     first |-> <<HeatingPhrase>>],
    [raw |-> <<JpMarker, "1", Blank, LampClaim>>,
     clean |-> <<JpMarker, "1", Blank, LampClaim>>,
     first |-> <<JpMarker, "1", Blank, LampClaim>>] }

\* claim numbers as written, with their values
SegNumbers ==
  { [digits |-> <<"1">>, n |-> 1], [digits |-> <<"2">>, n |-> 2],
    [digits |-> <<"1", "0">>, n |-> 10] }

\* one numbered claim of a text
SegItems == [no : SegNumbers, body : SegBodies]

\* what stands before the first numbered claim: nothing, the header of the
\* claims section, or a claim under a non-Latin marker
SegPreambles ==
  { <<>>, <<ClaimsHeader, LineBreak>>, <<KrMarker, Blank, "2", Blank, DiffuserClaim, LineBreak>> }

\* how the markers are written and the claims are separated
SegDotStyle == [punct |-> ".", sep |-> <<LineBreak, LineBreak>>]
SegColonStyle == [punct |-> ":", sep |-> <<LineBreak>>]

\* the claims texts given to the segmenter: "N." markers after each preamble,
\* "N:" markers on consecutive lines with nothing in front
SegInputs ==
  [pre : SegPreambles, items : SeqsUpTo(SegItems, MaxClaims), style : {SegDotStyle}]
    \cup [pre : {<<>>}, items : SeqsUpTo(SegItems, MaxClaims), style : {SegColonStyle}]

RECURSIVE SegItemsText(_, _)
SegItemsText(items, style) ==
  IF items = <<>> THEN <<>>
  ELSE Head(items).no.digits \o <<style.punct, Blank>> \o Head(items).body.raw
         \o (IF Tail(items) = <<>> THEN <<>> ELSE style.sep \o SegItemsText(Tail(items), style))

\* the text of an input
SegText(x) == x.pre \o SegItemsText(x.items, x.style)

\* claim1_text and claimset_text of a result
ClaimTexts(r) == <<r.claim1, r.claimset>>

\* one application of extract_claim1_and_claimset
ExtractClaimsCall(x) ==
  /\ prog = "pure"
  /\ pf_fn = "none"
  /\ pf_fn' = "extract_claim1_and_claimset"
  /\ pf_arg' = x
  /\ pf_res' = ClaimTexts(extract_claim1_and_claimset(SegText(x)))
  /\ pf_code' = -1
  /\ UNCHANGED <<prog, nonPfVars>>

PfInit ==
  /\ pf_fn = "none"
  /\ pf_arg = <<>>
  /\ pf_res = <<>>
  /\ pf_code = -1

PfIdle ==
  /\ pf_fn = "idle"
  /\ pf_arg = <<>>
  /\ pf_res = <<>>
  /\ pf_code = -1

\* the processing_publications lists given to build_try_list
TryProcs == SeqsUpTo(TryFamilyPool, MaxProc)

PfNext ==
  /\ prog = "pure"
  /\ pf_fn = "none"
  /\ \/ \E proc \in TryProcs, candidate \in TryCandidates :
          BuildTryListCall(proc, candidate)
     \/ \E rows \in GateBatches, check_files \in BOOLEAN, readable \in BOOLEAN :
          LineageGateCall(rows, check_files, readable)
     \/ \E x \in ZeroPadInputs : UsInsertZeroVariantCall(x)
     \/ \E x \in ZeroPadInputs : UsInsertZeroVariantsCall(x)
     \/ \E raw \in NormRaw : ParseConcatPubCall(raw)
     \/ \E x \in SegInputs : ExtractClaimsCall(x)
     \/ \E raw \in NormRaw : ToDocdbCall(raw)
     \/ \E fn \in NormFns, x \in NormCanonical : NormalizeTwiceCall(fn, <<>>, x)
     \/ \E fn \in NormFns, raw \in NormRaw :
          Normalize(fn, raw) # <<>> /\ NormalizeTwiceCall(fn, raw, Normalize(fn, raw))

----------------------------------------------------------------------------
(* step_c_claim_representation_v3.py: main, Phase 2 with ENABLE_GOOGLE_FALLBACK = "1" *)

\* the identifiers of DocIds, character by character
DocChars(d) ==
  CASE d = "US.1.A" -> <<"U", "S", ".", "1", ".", "A">>
    [] d = "US.1.A1" -> <<"U", "S", ".", "1", ".", "A", "1">>

\* lines 543-551: the seed publication, else the US target, else the last
\* attempted identifier in concatenated form
GoogleSeedConcat(row, l) ==
  IF row.seed_publication_number # NoPub THEN row.seed_publication_number
  ELSE IF row.us_pub # NoPub THEN row.us_pub
  ELSE IF l.last_attempted_docdb # None
    THEN LET info == split_dotted(DocChars(l.last_attempted_docdb))
         IN IF info # <<>> THEN info[1] \o info[2] \o info[3] ELSE NoPub
  ELSE NoPub

\* A plausible slip: only the third-party flag is recorded.
REQUIRED_GOOGLE_FLAGS_OneFlag == <<"THIRD_PARTY_SOURCE">>

\* governance_flags.extend([...]) on a secondary success
REQUIRED_GOOGLE_FLAGS == <<"THIRD_PARTY_SOURCE", "COVERAGE_FALLBACK">>

GOOGLE_FALLBACK_PREFIX == "GOOGLE_FALLBACK_"

\* Phase 2 of a row with no selection when the fallback is enabled: classify,
\* choose the seed, and call fetch_claims_google_text (or record that no seed
\* was found)
CxGoogleFallback ==
  /\ cx_pc = "phase2"
  /\ Phase1Failed(cx_loc)
  /\ cx_enable_google
  /\ LET seed == GoogleSeedConcat(cx_row, cx_loc)
         l2 == [Phase2Classify(cx_loc, cx_row) EXCEPT !.google_seed_publication = seed]
         l3 == [l2 EXCEPT !.google_status = "GOOGLE_ERROR_NO_SEED",
                          !.governance_flags = Append(@, "GOOGLE_ATTEMPTED")]
     IN IF seed = NoPub
          THEN /\ cx_loc' = l3
               /\ cx_out' = CxRecord(l3, cx_row)
               /\ cx_pc' = "head"
               /\ UNCHANGED ggVars
          ELSE /\ cx_loc' = l2
               /\ cx_pc' = "google"
               /\ GgEnter(seed)
               /\ UNCHANGED cx_out
  /\ cx_trace' = IF GoogleSeedConcat(cx_row, cx_loc) = NoPub THEN cx_trace ELSE <<>>
  /\ UNCHANGED <<prog, cx_input, cx_enable_google, cx_gtext, cx_rows, cx_cache, cx_state, cx_now,
                 cx_exchanges, cx_row, cx_k, famVars, smVars, pfVars>>

\* lines 558-613: fetch_claims_google_text has returned; main takes the triple,
\* sets the provenance fields, caches the text under the selected identifier and
\* writes the record
CxGoogleReturned ==
  /\ cx_pc = "google"
  /\ gg_pc = "returned"
  /\ LET res == gg_result
         dotted == to_dotted_from_concat(cx_loc.google_seed_publication)
         selected == IF dotted = <<>> THEN None ELSE Join(dotted)
         l1 == [cx_loc EXCEPT !.google_status = res.status,
                              !.google_resolved_publication = res.resolved_publication]
         l2 == IF res.claims_text \notin {None, ""}
                 THEN [l1 EXCEPT !.selected = selected,
                                 !.selected_source = GOOGLE_FALLBACK_PREFIX \o "SEED",
                                 !.structure_status = "OK",
                                 !.claim_gate_reason = "GOOGLE_CLAIMS_TEXT",
                                 !.claims_count = 0,
                                 !.claims_source = "GOOGLE",
                                 !.governance_flags = @ \o REQUIRED_GOOGLE_FLAGS]
               ELSE [l1 EXCEPT !.governance_flags = Append(@, "GOOGLE_ATTEMPTED")]
     IN /\ cx_loc' = l2
        /\ cx_out' = CxRecord(l2, cx_row)
        /\ cx_gtext' = IF l2.claims_source = "GOOGLE" /\ selected # None
                         THEN cx_gtext \cup {selected} ELSE cx_gtext
  /\ cx_pc' = "head"
  /\ gg_pc' = "idle"
  /\ gg_arg' = NoPub
  /\ gg_trace' = <<>>
  /\ gg_result' = NoGgResult
  /\ gg_idx' = 1
  /\ gg_en' = TRUE
  /\ gg_last' = "GOOGLE_404"
  /\ UNCHANGED <<prog, cx_input, cx_enable_google, cx_rows, cx_cache, cx_state, cx_now,
                 cx_exchanges, cx_row, cx_k, cx_trace, gg_calls, gg_cache,
                 famVars, smVars, pfVars>>

\* a run with ENABLE_GOOGLE_FALLBACK = "1"; cache/claims_google is empty or holds
\* the text an earlier run stored for the seed publication
CxFallbackInit ==
  /\ prog = "claims"
  /\ cx_pc = "head"
  /\ cx_input \in 0..MaxFallbackRows
  /\ cx_rows = 0
  /\ cx_cache = [d \in DocIds |-> "absent"]
  /\ cx_state = [access_token |-> 0, expires_at_epoch |-> 0]
  /\ cx_now = 0
  /\ cx_exchanges = 0
  /\ cx_row = NoRow
  /\ cx_k = 1
  /\ cx_loc = CxLocals0
  /\ cx_trace = <<>>
  /\ cx_out = "none"
  /\ cx_enable_google = TRUE
  /\ cx_gtext = {}
  /\ gg_pc = "idle"
  /\ gg_calls = 0
  /\ gg_arg = NoPub
  /\ gg_cache \in {[k \in GgKeys |-> "absent"],
                   [k \in GgKeys |-> IF k = PubUS6 THEN "cached text" ELSE "absent"]}
  /\ gg_idx = 1
  /\ gg_en = TRUE
  /\ gg_last = "GOOGLE_404"
  /\ gg_trace = <<>>
  /\ gg_result = NoGgResult
  /\ FamIdle
  /\ SemIdle
  /\ PfIdle

\* the rows of these runs are read within one second, so that a token that was
\* obtained does not expire between them
CxFallbackNext ==
  \/ \E row \in CxFallbackRows, x \in ExchangeOutcomes : CxRowStart(row, 0, x)
  \/ CxLoopHead
  \/ \E r \in CxResponses : CxTry(r)
  \/ CxFinishRow
  \/ CxGoogleFallback
  \/ \E r \in GgResponses : GgGet(r)
  \/ CxGoogleReturned

\* the claims extractor with the secondary source enabled
SpecFallback == CxFallbackInit /\ [][CxFallbackNext]_vars

----------------------------------------------------------------------------

Init ==
  /\ prog \in {"family", "claims", "google", "sem", "pure"}
  /\ IF prog = "family" THEN FamInit ELSE FamIdle
  /\ IF prog = "claims" THEN CxInit ELSE CxIdle
  /\ IF prog = "google" THEN GgInit ELSE GgIdle
  /\ IF prog = "sem" THEN SemInit ELSE SemIdle
  /\ IF prog = "pure" THEN PfInit ELSE PfIdle

Next ==
  \/ prog = "family" /\ FamNext
  \/ prog = "claims" /\ CxNext
  \/ prog = "google" /\ GgNext
  \/ prog = "sem" /\ SemNext
  \/ prog = "pure" /\ PfNext

Spec == Init /\ [][Next]_vars

----------------------------------------------------------------------------
(* Properties of fetch_family_docdb *)

\* the current call has returned to main
FamReturned == fam_pc = "main" /\ fam_calls > 0

\* the current call is over: it returned, or ensure_token raised out of it
FamEnded == FamReturned \/ fam_pc = "raised"

FamGets == {i \in 1..Len(fam_trace) : fam_trace[i].ev = "GET"}

FamRefreshes == {i \in 1..Len(fam_trace) : fam_trace[i].ev = "REFRESH"}

\* the outcomes of the GETs of the current call, in order
FamOutcomes == [i \in 1..Len(fam_trace) |->
                  IF fam_trace[i].kind = "exc" THEN "timeout"
                  ELSE IF fam_trace[i].ev = "REFRESH" THEN "refresh"
                  ELSE IF fam_trace[i].status = 200 /\ ~JsonParses(fam_trace[i].body) THEN "200-unparseable"
                  ELSE IF fam_trace[i].status \in {400, 401} /\ HasInvalidTokenSignature(fam_trace[i].body)
                    THEN "invalid-token"
                  ELSE ToString(fam_trace[i].status)]

Saw200 == \E i \in FamGets : fam_trace[i].kind = "resp" /\ fam_trace[i].status = 200

SawValidated200 ==
  \E i \in FamGets : /\ fam_trace[i].kind = "resp"
                     /\ fam_trace[i].status = 200
                     /\ fam_trace[i].body = ServerDoc

\* C1 as stated: started with no cache entry, a call leaves an entry if and only
\* if one of its GET attempts returned 200.
C1_EntryIffSome200 ==
  (FamEnded /\ fam_start_cache = "absent") => ((fam_cache # "absent") <=> Saw200)

\* C1 (amended): started with no cache entry, a call leaves an entry if and only if
\* one of its GET attempts returned 200 with a body that parses as JSON; the entry
\* is that document.  [timeout, 500, 200 with a JSON body] leaves an entry and
\* [timeout, 500, 500] leaves none.
C1_EntryIffValidated200 ==
  /\ (FamEnded /\ fam_start_cache = "absent") =>
        /\ (fam_cache # "absent") <=> SawValidated200
        /\ fam_cache \in {"absent", ServerDoc}
  /\ (fam_start_cache = "absent" /\ FamOutcomes = <<"timeout", "500", "200">>) =>
        (FamReturned /\ fam_cache = ServerDoc /\ fam_result.data = ServerDoc)
  /\ (fam_start_cache = "absent" /\ FamOutcomes = <<"timeout", "500", "500">>) =>
        (FamReturned /\ fam_cache = "absent" /\ fam_result.data = NoDoc)

C1_Witness ==
  /\ FamReturned
  /\ fam_start_cache = "absent"
  /\ FamOutcomes = <<"timeout", "500", "200">>
  /\ fam_cache = ServerDoc

\* C4: a forced token refresh is followed by exactly one retry of the request with
\* the new token; a call never refreshes without retrying and never refreshes twice.
C4_RefreshOnceThenRetry ==
  FamEnded =>
    /\ Cardinality(FamRefreshes) <= 1
    /\ \A i \in FamRefreshes :
         /\ i < Len(fam_trace)
         /\ fam_trace[i + 1].ev = "GET"
         /\ fam_trace[i + 1].tok = fam_trace[i].tok

\* GETs that count against the backoff budget if the refresh-and-retry is free:
\* all but those answered by a forced refresh
FamBackoffAttempts == Cardinality(FamGets) - Cardinality(FamRefreshes)

\* C5: the refresh-and-retry does not consume the backoff budget: a call gives up
\* (status -1) only after MAX_RETRY attempts that were not refresh-and-retry, and
\* after [invalid-token 401, 500, 500] a further GET is still issued.
C5_RefreshKeepsBackoffBudget ==
  /\ (FamReturned /\ fam_result.http_status = -1) => FamBackoffAttempts >= MAX_RETRY
  /\ (FamOutcomes = <<"invalid-token", "refresh", "500", "500">>) => fam_pc = "loop"

----------------------------------------------------------------------------
(* Properties of the primary fetchers: fetch_claims_xml and fetch_family_docdb *)

\* the calls of fetch_claims_xml of the current row that went to the network
CxNetFetches == {i \in 1..Len(cx_trace) : cx_trace[i].ev = "FETCH" /\ cx_trace[i].gets > 0}

\* C2: fetch_claims_xml writes the cache only for a success (2xx) status with an XML
\* content type; every other outcome returns no document and leaves the cache
\* unchanged, so failed fetches never leave an entry.
C2_CacheOnlyOn2xxXml ==
  \A i \in CxNetFetches :
    LET e == cx_trace[i] IN
    IF e.status >= 200 /\ e.status <= 299 /\ e.ctype = "xml"
      THEN e.wrote /\ e.returned # None /\ cx_cache[e.docdb] = e.returned
      ELSE ~e.wrote /\ e.returned = None

\* C6: a 404 is permanent: the call issues no further GET after it, returns no
\* document and writes no cache entry, in fetch_family_docdb and in fetch_claims_xml.
C6_NotFoundIsPermanent ==
  /\ \A i \in FamGets :
       (fam_trace[i].kind = "resp" /\ fam_trace[i].status = 404) =>
          /\ i = Len(fam_trace)
          /\ FamReturned
          /\ fam_result.data = NoDoc
          /\ fam_result.http_status = 404
          /\ fam_cache = "absent"
  /\ \A i \in CxNetFetches :
       cx_trace[i].status = 404 =>
          /\ cx_trace[i].gets = 1
          /\ cx_trace[i].returned = None
          /\ cx_trace[i].fetch_status = "OPS_404"
          /\ ~cx_trace[i].wrote
          /\ (i = Len(cx_trace) => cx_cache[cx_trace[i].docdb] = "absent")

C6_Witness ==
  /\ FamReturned
  /\ Len(fam_trace) = 2
  /\ fam_trace[1].status = 500
  /\ fam_trace[2].status = 404
  /\ fam_result.http_status = 404

\* C7: a 429 or any 5xx from the primary registry is transient: the same request is
\* retried unless the attempt bound is reached, in both primary fetchers.
C7_TransientIsRetried ==
  LET transient(status) == status = 429 \/ (status >= 500 /\ status <= 599)
  IN /\ \A i \in FamGets :
          ( /\ fam_trace[i].kind = "resp"
            /\ transient(fam_trace[i].status)
            /\ Cardinality({j \in FamGets : j <= i}) < MAX_RETRY )
          => (fam_pc = "loop" \/ \E j \in FamGets : j > i)
     /\ \A i \in CxNetFetches :
          transient(cx_trace[i].status) => cx_trace[i].gets > 1

\* C8: a 401 or 403 from fetch_claims_xml triggers a credential refresh and one
\* retry of the same identifier with the new token before the attempt counts as
\* failed.
C8_AuthFailureRefreshesAndRetries ==
  \A i \in CxNetFetches :
    cx_trace[i].status \in {401, 403} =>
      /\ i + 2 <= Len(cx_trace)
      /\ cx_trace[i + 1].ev = "EXCHANGE"
      /\ cx_trace[i + 2].ev = "FETCH"
      /\ cx_trace[i + 2].docdb = cx_trace[i].docdb
      /\ cx_trace[i + 2].tok = cx_trace[i + 1].tok

----------------------------------------------------------------------------
(* Properties of the secondary fetchers and of the retry loops *)

\* the GETs of the current fetch_claims_google_text call that were answered with
\* a 2xx page carrying a consent/robot indicator
GgInterstitialGets ==
  {i \in 1..Len(gg_trace) :
     /\ gg_trace[i].kind = "resp"
     /\ gg_trace[i].status >= 200 /\ gg_trace[i].status <= 299
     /\ gg_trace[i].ctype = "html"
     /\ PageHasIndicator(gg_trace[i].page)}

\* in fetch_claims_google_text a 2xx page with a consent/robot indicator is
\* never the page whose text the call caches and returns as a success.
GgInterstitialRejected == \A i \in GgInterstitialGets : ~gg_trace[i].accepted

\* in the sem_v2 fetch loop a record built from a 2xx page with a
\* consent/robot indicator has status FAIL and holds none of the page's text.
SemInterstitialRejected ==
  (sm_out # NoRec /\ sm_out.http_status >= 200 /\ sm_out.http_status <= 299
     /\ PageHasIndicator(sm_out.page))
  => (sm_out.status = "FAIL" /\ sm_out.claims_raw = "" /\ sm_out.description_raw = "")

\* C3: in both secondary fetchers a 2xx response whose page contains a known
\* consent/robot indicator always ends in a failure outcome: never an OK result,
\* and its text is never written to the cache.
C3_InterstitialAlwaysFails == GgInterstitialRejected /\ SemInterstitialRejected

----------------------------------------------------------------------------
(* Properties of the claims extractor: token, candidate order, provenance *)

\* the step in which main reads a row and calls get_access_token
CxTokenCall == cx_pc = "row" /\ cx_rows' = cx_rows + 1

\* C11: get_access_token returns the stored token without an exchange iff a token
\* is stored and more than 30 seconds remain before its expiry; otherwise it makes
\* exactly one exchange and, when that succeeds, stores the new token with
\* expiry = now + expires_in and returns it; after every successful call the
\* returned token is the stored one.
C11_TokenReusedIffFresh ==
  [][ CxTokenCall =>
        LET fresh == cx_state.access_token # 0 /\ cx_state.expires_at_epoch - cx_now' > 30
        IN /\ fresh =>
                /\ cx_pc' # "raised"
                /\ cx_trace' = <<>>
                /\ cx_exchanges' = cx_exchanges
                /\ cx_state' = cx_state
                /\ cx_loc'.token = cx_state.access_token
           /\ ~fresh =>
                \/ cx_pc' = "raised" /\ cx_state' = cx_state /\ cx_exchanges' = cx_exchanges
                \/ /\ cx_pc' # "raised"
                   /\ cx_exchanges' = cx_exchanges + 1
                   /\ Len(cx_trace') = 1
                   /\ cx_trace'[1].ev = "EXCHANGE"
                   /\ cx_trace'[1].tok = cx_exchanges'
                   /\ cx_loc'.token = cx_exchanges'
                   /\ cx_state'.expires_at_epoch = cx_now' + cx_trace'[1].expires_in
           /\ cx_pc' # "raised" => cx_loc'.token = cx_state'.access_token /\ cx_loc'.token # 0
    ]_vars

\* a second row reused the token of the first with 31 seconds left
C11_Witness ==
  /\ cx_rows = 2
  /\ cx_pc \in {"try", "phase2"}
  /\ cx_exchanges = 1
  /\ cx_now = 1
  /\ cx_state.expires_at_epoch = 32
  /\ cx_loc.token = 1

\* the application of build_try_list to a candidate that has a canonical dotted
\* form CC.NUMBER.KIND
TryListOfSeed ==
  /\ pf_fn = "build_try_list"
  /\ split_dotted(CandDotted(pf_arg.candidate)) # <<>>

\* the kind of the seed is a single letter
SeedKindIsBareLetter ==
  LET kind == split_dotted(CandDotted(pf_arg.candidate))[3]
  IN Len(kind) = 1 /\ kind[1] \in UpperLetters

\* the kind part of a dotted identifier: what follows its last "."
KindOf(d) ==
  LET last == CHOOSE i \in 1..Len(d) : d[i] = "." /\ \A j \in (i + 1)..Len(d) : d[j] # "."
  IN SubSeq(d, last + 1, Len(d))

\* C12: build_try_list puts the seed's canonical dotted form first whatever the
\* family data is, and for a seed with a bare letter kind every further entry is
\* a family member of the seed's jurisdiction and kind letter with a numbered kind.
C12_SeedFirstFamilyFiltered ==
  TryListOfSeed =>
    LET seed == CandDotted(pf_arg.candidate)
        rest == 2..Len(pf_res)
    IN /\ Len(pf_res) >= 1
       /\ pf_res[1] = seed
       /\ SeedKindIsBareLetter =>
            \A i \in rest :
              /\ \E j \in 1..Len(pf_arg.proc) : pf_res[i] = to_dotted_from_concat(pf_arg.proc[j])
              /\ SubSeq(pf_res[i], 1, 3) = SubSeq(seed, 1, 3)
              /\ KindOf(pf_res[i])[1] = KindOf(seed)[1]
              /\ Len(KindOf(pf_res[i])) > 1

\* seed US1B with a family holding a bare-letter member, a foreign member and a
\* matching one: only the matching one follows the seed
C12_Witness ==
  /\ pf_fn = "build_try_list"
  /\ pf_arg.candidate = <<"U", "S", "1", "B">>
  /\ pf_arg.proc = << <<"E", "P", "1", "B", "1">>, <<"U", "S", "1", "B">>,
                      <<"U", "S", "3", "B", "1">> >>
  /\ pf_res = << <<"U", "S", ".", "1", ".", "B">>, <<"U", "S", ".", "3", ".", "B", "1">> >>

\* C13: among the family fallbacks build_try_list appends, for every seed kind
\* letter a member with kind suffix "1" precedes every member with suffix "2",
\* which precedes every member with another numeric suffix, whatever the numbers.
C13_SuffixOrder ==
  (TryListOfSeed /\ SeedKindIsBareLetter) =>
    LET tier(d) == IF Tail(KindOf(d)) = <<"1">> THEN 1
                   ELSE IF Tail(KindOf(d)) = <<"2">> THEN 2 ELSE 3
    IN \A i, j \in 2..Len(pf_res) : tier(pf_res[i]) < tier(pf_res[j]) => i < j

\* the fetch_claims_xml calls of the current row, in the order they were made
CxFetches == SelectSeq(cx_trace, LAMBDA e : e.ev = "FETCH")

\* the identifiers of a row in candidate-list order: candidate by candidate, and
\* within a candidate in the order of its try list
ListOrder(cands) ==
  LET pairs == UNION {{<<c, t>> : t \in 1..Len(cands[c].tries)} : c \in 1..Len(cands)}
      rank(p) == Cardinality({q \in pairs : q[1] < p[1] \/ (q[1] = p[1] /\ q[2] <= p[2])})
  IN [k \in 1..Cardinality(pairs) |->
        LET p == CHOOSE q \in pairs : rank(q) = k IN cands[p[1]].tries[p[2]]]

\* the fetch returned a document that passes the structure gate
FetchedValid(e) == e.returned \in {"claims", "claims_no_1"}

\* the record of the current row has just been written (cx_out holds it)
CxWrote == cx_pc = "head" /\ cx_rows > 0

\* Phase 1 of the current row is over
CxPhase1Done == cx_pc \in {"phase2", "google"} \/ CxWrote

\* C14: for each row the identifiers are attempted strictly in candidate-list
\* order, the first fetch that returns a structurally valid document ends the
\* attempts (no primary fetch follows it), and the selected identifier is exactly
\* the one whose fetch succeeded.
C14_ListOrderStopAtFirstValid ==
  LET order == ListOrder(cx_row.candidates)
      n == Len(CxFetches)
  IN /\ n <= Len(order)
     /\ \A i \in 1..n : CxFetches[i].docdb = order[i]
     /\ \A i \in 1..(n - 1) : ~FetchedValid(CxFetches[i])
     /\ cx_loc.claims_source = "OPS" <=> (n > 0 /\ FetchedValid(CxFetches[n]) /\ cx_pc # "raised")
     /\ cx_loc.claims_source = "OPS" => (CxPhase1Done /\ cx_loc.selected = CxFetches[n].docdb)
     /\ (CxPhase1Done /\ cx_loc.claims_source # "OPS") => n = Len(order)
     /\ CxWrote => cx_out.selected_publication = cx_loc.selected

\* two candidates, the first one fetched with a valid document: one fetch only,
\* and the record names the first candidate
C14_Witness ==
  /\ CxWrote
  /\ Len(ListOrder(cx_row.candidates)) = 2
  /\ Len(CxFetches) = 1
  /\ CxFetches[1].gets = 1
  /\ cx_out.selected_publication = "US.1.A"

\* fetch_claims_google_text is called from main
CxGoogleIssued == prog = "claims" /\ gg_calls' = gg_calls + 1

\* C15: the secondary fetch is issued for a row only after every identifier of
\* every primary candidate of the row was attempted and none of the attempts
\* returned a structurally valid document; a row with a primary success gets none.
C15_SecondaryOnlyAfterPrimaryExhausted ==
  [][CxGoogleIssued =>
       LET order == ListOrder(cx_row.candidates)
       IN /\ Len(CxFetches) = Len(order)
          /\ \A i \in 1..Len(order) :
               CxFetches[i].docdb = order[i] /\ ~FetchedValid(CxFetches[i])
          /\ cx_loc.attempted_docdb_count = Len(order)
          /\ cx_loc.selected = None /\ cx_loc.claims_source = None
          /\ cx_loc.google_status = None]_vars

\* the secondary fetch is under way for a row whose two identifiers were tried
C15_Witness ==
  /\ cx_pc = "google"
  /\ gg_pc = "loop"
  /\ cx_loc.attempted_docdb_count = 2
  /\ cx_loc.attempt_log_head[1].fetch_status # cx_loc.attempt_log_head[2].fetch_status

\* s.startswith("GOOGLE_FALLBACK_"), for the values a selected_source takes here
BeginsGoogleFallback(s) == \E rest \in {"", "SEED", "ALT0"} : s = GOOGLE_FALLBACK_PREFIX \o rest

Range(seq) == {seq[i] : i \in 1..Len(seq)}

\* main is about to take the result of a secondary fetch that succeeded on the
\* zero-padded variant (its last GET, for that variant, was accepted), for a row
\* whose seed normalizes and whose primary attempts all ended with a 404
CxAlt0SuccessAfter404s ==
  /\ cx_pc = "google"
  /\ gg_pc = "returned"
  /\ to_dotted_from_concat(cx_row.seed_publication_number) # <<>>
  /\ cx_loc.attempted_docdb_count > 0
  /\ cx_loc.attempted_docdb_count = Len(cx_loc.attempt_log_head)
  /\ \A i \in 1..Len(cx_loc.attempt_log_head) : cx_loc.attempt_log_head[i].fetch_status = "OPS_404"
  /\ gg_trace # <<>>
  /\ gg_trace[1].accepted
  /\ gg_trace[1].pub_try = us_insert_zero_variant(cx_row.seed_publication_number)

\* C16: a row whose seed normalizes, whose primary attempts all return 404 and
\* whose secondary fetch succeeds on the zero-padded variant is written with a
\* selected_source that begins with GOOGLE_FALLBACK_, claims_source GOOGLE and
\* governance flags that contain THIRD_PARTY_SOURCE and COVERAGE_FALLBACK.
C16_Alt0SuccessRecord ==
  [][CxAlt0SuccessAfter404s =>
       /\ cx_pc' = "head"
       /\ BeginsGoogleFallback(cx_out'.selected_source)
       /\ cx_out'.claims_source = "GOOGLE"
       /\ {"THIRD_PARTY_SOURCE", "COVERAGE_FALLBACK"} \subseteq Range(cx_out'.governance_flags)]_vars

\* such a record has been written: two 404s, then GOOGLE_OK_ALT0 for the padded seed
C16_Witness ==
  /\ CxWrote
  /\ cx_out.seed_publication_number = PubUS6
  /\ cx_out.attempted_docdb_count = 2
  /\ cx_out.last_fetch_status = "OPS_404"
  /\ cx_out.hitl_cause = "HITL_US_ONLY_OPS_CLAIMS_404"
  /\ cx_out.google_status = "GOOGLE_OK_ALT0"
  /\ cx_out.google_resolved_publication = PubUS7
  /\ cx_out.selected_publication = "US.2021372574.A1"

\* C17: in every record main writes, claims_source GOOGLE comes with governance
\* flags that contain THIRD_PARTY_SOURCE and COVERAGE_FALLBACK, and a null
\* claims_source comes with a null selected_publication.
C17_RecordSourceConsistent ==
  CxWrote =>
    /\ cx_out.claims_source = "GOOGLE" =>
          {"THIRD_PARTY_SOURCE", "COVERAGE_FALLBACK"} \subseteq Range(cx_out.governance_flags)
    /\ cx_out.claims_source = None => cx_out.selected_publication = None

\* a record taken from the secondary cache after a primary attempt that did not
\* return 404
C17_Witness ==
  /\ CxWrote
  /\ cx_out.claims_source = "GOOGLE"
  /\ cx_out.google_status = "GOOGLE_OK(CACHE)"
  /\ cx_out.last_fetch_status \notin {None, "OPS_404"}
  /\ Len(cx_out.governance_flags) = 2

RECURSIVE CandOfAttempt(_, _)
\* the candidate whose try list holds the n-th attempt of the row
CandOfAttempt(cands, n) ==
  IF n <= Len(Head(cands).tries) THEN Head(cands)
  ELSE CandOfAttempt(Tail(cands), n - Len(Head(cands).tries))

\* C18: in every written record, selected_source is DIRECT exactly when the
\* selected identifier is the canonical form of the candidate being tried (the
\* head of its try list) and FAMILY_FALLBACK for every other primary success, it
\* begins with GOOGLE_FALLBACK_ for every secondary success, and it is not null
\* when claims_source is not null.
C18_ProvenanceTagged ==
  CxWrote =>
    /\ cx_out.claims_source = "OPS" =>
          LET c == CandOfAttempt(cx_row.candidates, Len(CxFetches))
          IN /\ cx_out.selected_source \in {"DIRECT", "FAMILY_FALLBACK"}
             /\ cx_out.selected_source = "DIRECT" <=> cx_out.selected_publication = c.tries[1]
    /\ cx_out.claims_source = "GOOGLE" => BeginsGoogleFallback(cx_out.selected_source)
    /\ cx_out.claims_source # None => cx_out.selected_source # None

----------------------------------------------------------------------------
(* Properties of the lineage gate and of the zero-padding variants *)

\* the lineage gate ran on a batch it could read
GateRan == pf_fn = "lineage_gate" /\ pf_arg.readable

\* the defects the gate is specified to look for in a secondary-sourced record
GateListedDefect(r) ==
  \/ ~is_nonempty_str(r.google_seed_publication)
  \/ ~is_nonempty_str(r.google_resolved_publication)
  \/ ~is_nonempty_str(r.google_status)
  \/ ~is_nonempty_str(r.claims_google_text_path)
  \/ ~r.governance_flags.list
  \/ \E i \in 1..Len(r.governance_flags.items) : ~r.governance_flags.items[i].str
  \/ ~({"THIRD_PARTY_SOURCE", "COVERAGE_FALLBACK"}
         \subseteq {r.governance_flags.items[i].v : i \in 1..Len(r.governance_flags.items)})
  \/ ~(r.selected_source.kind = "str" /\ StartsWith(r.selected_source.s, GateSourcePrefix))

\* C19 as stated: the gate fails a batch exactly when some record with
\* claims_source GOOGLE has an empty seed identifier, resolved identifier, fetch
\* status or cached-text path, flags that are not a list of strings with both
\* required flags, or a selected_source that does not begin with GOOGLE_FALLBACK_.
C19_FailsIffListedDefect ==
  GateRan =>
    (pf_code = 1 <=>
       \E i \in 1..Len(pf_arg.rows) :
         pf_arg.rows[i].claims_source = "GOOGLE" /\ GateListedDefect(pf_arg.rows[i]))

\* C19, amended: the gate fails a batch exactly when some record with claims_source
\* GOOGLE has one of the listed defects or, under --check-files, names a cached
\* text file that is not on disk; otherwise it passes, so records of other
\* sources never fail it and a batch with no secondary-sourced record passes.
C19_FailsIffDefectOrMissingFile ==
  GateRan =>
    /\ pf_code \in {0, 1}
    /\ pf_code = 1 <=>
          \E i \in 1..Len(pf_arg.rows) :
            LET r == pf_arg.rows[i]
            IN /\ r.claims_source = "GOOGLE"
               /\ GateListedDefect(r) \/ (pf_arg.check_files /\ ~r.on_disk)

\* a batch of a complete record and one that lacks only COVERAGE_FALLBACK fails,
\* without --check-files
C19_Witness ==
  /\ GateRan
  /\ ~pf_arg.check_files
  /\ pf_code = 1
  /\ Len(pf_arg.rows) = 2
  /\ pf_arg.rows[1] = GateGoodRow
  /\ pf_arg.rows[2] =
       [GateGoodRow EXCEPT !.governance_flags = JFlags(<<FlagStr("THIRD_PARTY_SOURCE")>>)]

\* a zero-padding variant generator was applied to a US-style identifier
ZeroPadRan ==
  /\ pf_fn \in {"_us_insert_zero_variant", "us_insert_zero_variants"}
  /\ pf_arg.cc = <<"U", "S">>

\* the identifier with a single "0" put in front of its serial
OneZeroInserted(x) == x.cc \o x.year \o <<"0">> \o x.serial \o x.kind

\* C20: for a US-style identifier whose serial has exactly 6 digits, each of the
\* two variant generators yields exactly one alternate, the identifier with one
\* leading zero inserted into the serial; for a serial of any other length it
\* yields no alternate.
C20_OneAlternateIffSixDigits ==
  ZeroPadRan =>
    IF Len(pf_arg.serial) = 6
    THEN pf_res = <<OneZeroInserted(pf_arg)>>
    ELSE pf_res = <<>>

----------------------------------------------------------------------------
(* Properties of the normalizers *)

\* a normalizer was applied twice to a string
NormalizedTwice == pf_fn \in NormFns /\ pf_arg.twice

\* C21: for every string x in canonical CC.NNN.KK form, and for every x that is
\* the result of normalizing an accepted raw string, normalize(normalize(x))
\* equals normalize(x), for to_docdb and for to_dotted_from_concat.
C21_NormalizeIdempotent ==
  NormalizedTwice => pf_res[2] = pf_res[1]

\* to_docdb was applied twice to the canonical US.1234.A1 and returned it
C21_Witness ==
  /\ NormalizedTwice
  /\ pf_fn = "to_docdb"
  /\ pf_arg.raw = <<>>
  /\ pf_arg.x = <<"U", "S", ".", "1", "2", "3", "4", ".", "A", "1">>
  /\ pf_res = <<pf_arg.x, pf_arg.x>>

\* a normalizer was applied once to a raw string
ParsedRaw == pf_fn \in {"parse_concat_pub", "to_docdb"} /\ ~pf_arg.twice

\* the triple a normalizer returned: parse_concat_pub's tuple, or the three
\* parts to_docdb put between the dots
ReturnedTriple ==
  IF pf_fn = "parse_concat_pub" THEN pf_res
  ELSE LET s == pf_res[1]
           j == CHOOSE x \in 1..Len(s) : s[x] = "." /\ \A y \in (x + 1)..Len(s) : s[y] # "."
       IN <<SubSeq(s, 1, 2), SubSeq(s, 4, j - 1), SubSeq(s, j + 1, Len(s))>>

\* the split the claim describes, of the cleaned input: leading two letters,
\* trailing letter with an optional digit, and the remainder
ClaimedTriple(p) ==
  LET k == KindLen(p)
  IN <<SubSeq(p, 1, 2), SubSeq(p, 3, Len(p) - k), SubSeq(p, Len(p) - k + 1, Len(p))>>

\* C22: when parse_concat_pub or to_docdb accepts a raw publication string, the
\* triple is the leading two letters, the all-digit remainder, and the trailing
\* letter optionally followed by a digit; a string whose remainder is not all
\* digits is rejected with the failure value.
C22_AcceptedTripleShape ==
  ParsedRaw =>
    LET p == pf_arg.p
        t == ClaimedTriple(p)
    IN /\ pf_res # <<>> =>
            /\ IsAlpha(t[1]) /\ Len(t[1]) = 2
            /\ Len(t[3]) \in {1, 2}
            /\ IsDigit(t[2])
            /\ ReturnedTriple = t
       /\ (Len(p) >= 3 /\ KindLen(p) > 0 /\ ~IsDigit(t[2])) => pf_res = <<>>

----------------------------------------------------------------------------
(* Properties of the claims segmenter *)

\* the segmenter was applied to a text with Latin-numbered claims
SegRanNumbered == pf_fn = "extract_claim1_and_claimset" /\ pf_arg.items # <<>>

\* the claim numbers of the text
SegNos(items) == {items[i].no.n : i \in 1..Len(items)}

\* the first claim of the text that has number n
SegFirstWith(items, n) ==
  items[CHOOSE i \in 1..Len(items) :
          items[i].no.n = n /\ \A j \in 1..(i - 1) : items[j].no.n # n]

RECURSIVE SegExpectedSet(_, _)
\* the bodies of the claims numbered nos, one per number, in ascending order of
\* the numbers, with a double line break between them
SegExpectedSet(items, nos) ==
  IF nos = {} THEN <<>>
  ELSE LET n == CHOOSE x \in nos : \A y \in nos : x <= y
       IN SegFirstWith(items, n).body.clean
            \o (IF nos = {n} THEN <<>>
                ELSE <<LineBreak, LineBreak>> \o SegExpectedSet(items, nos \ {n}))

\* C23: for a Latin-numbered claims text that contains claim 1, the first claim
\* returned is the body of claim 1 without a leading "1."-style marker, and the
\* claim set returned has one entry per distinct claim number, the entries in
\* ascending numeric order with a double line break between them.
C23_FirstClaimAndOrderedSet ==
  (SegRanNumbered /\ 1 \in SegNos(pf_arg.items)) =>
     /\ pf_res[1] = SegFirstWith(pf_arg.items, 1).body.first
     /\ pf_res[2] = SegExpectedSet(pf_arg.items, SegNos(pf_arg.items))

\* the text "1. A lamp comprising a base.\n\n2. The lamp of claim 1, further
\* comprising a diffuser." gave the first claim "A lamp comprising a base." and
\* a set of two entries
C23_Witness ==
  /\ pf_fn = "extract_claim1_and_claimset"
  /\ SegText(pf_arg) = <<"1", ".", Blank, LampClaim, LineBreak, LineBreak,
                         "2", ".", Blank, DiffuserClaim>>
  /\ pf_res = <<<<LampClaim>>, <<LampClaim, LineBreak, LineBreak, DiffuserClaim>>>>

\* the text holds a non-Latin claim marker
SegHasCjkMarker(x) == \E i \in 1..Len(SegText(x)) : SegText(x)[i] \in CjkMarkers

\* C24: when the text holds a line-anchored Latin numeric marker and a non-Latin
\* claim marker, parse_claims_to_map reports the method NUMBERED and its
\* segments are those the Latin markers delimit: one per claim number, the body
\* that follows the first marker of that number, non-Latin markers inside it.
C24_LatinStrategyOnly ==
  (SegRanNumbered /\ SegHasCjkMarker(pf_arg)) =>
     LET parsed == parse_claims_to_map(SegText(pf_arg))
     IN /\ parsed.method = "NUMBERED"
        /\ DOMAIN parsed.claims_by_no = SegNos(pf_arg.items)
        /\ \A n \in SegNos(pf_arg.items) :
             parsed.claims_by_no[n] = SegFirstWith(pf_arg.items, n).body.clean

\* a text with a non-Latin marker before claim 1 and another inside claim 2
C24_Witness ==
  /\ SegRanNumbered
  /\ pf_arg.pre # <<>> /\ pf_arg.pre[1] = KrMarker
  /\ Len(pf_arg.items) = 2
  /\ pf_arg.items[1].no.n = 1
  /\ pf_arg.items[2].body.raw[1] = JpMarker
  /\ parse_claims_to_map(SegText(pf_arg)).method = "NUMBERED"

----------------------------------------------------------------------------
(* Properties of the batch loop of the claims extractor *)

\* C25: a failure on one identifier never stops the claims extractor's batch: after
\* a failed token exchange, a network exception or timeout on a registry GET, a
\* status that is not 2xx or a payload that does not parse, main still writes the
\* row's record and goes on to the next row; it is never left by an exception.
C25_FailureNeverStopsBatch == prog = "claims" => cx_pc # "raised"

----------------------------------------------------------------------------
(* Properties of the secondary cache *)

\* the key fetch_claims_google_text was queried with, as it names its cache file
GgQueriedKey == SquashUpper(gg_arg)

\* C26: fetch_claims_google_text writes the secondary cache only when it succeeds
\* (a claims section was found and its text has at least 80 characters), and then
\* under the originally queried key, never under the variant that resolved; a
\* call that fails leaves every cache file as it was.
C26_CacheWrittenOnlyOnSuccess ==
  [][(prog = "google" /\ gg_cache' # gg_cache) =>
       /\ gg_pc = "loop" /\ gg_pc' = "returned"
       /\ gg_result'.status \in {"GOOGLE_OK", "GOOGLE_OK_ALT0"}
       /\ LongEnough(gg_result'.claims_text)
       /\ gg_trace'[Len(gg_trace')].page.content = "claims_long"
       /\ DOMAIN gg_cache' = DOMAIN gg_cache \cup {GgQueriedKey}
       /\ gg_cache'[GgQueriedKey] = gg_result'.claims_text
       /\ \A k \in DOMAIN gg_cache \ {GgQueriedKey} : gg_cache'[k] = gg_cache[k]]_vars

\* the zero-inserted variant resolved: the text lies under the queried key and no
\* file was made for the variant
C26_Witness ==
  /\ prog = "google"
  /\ gg_pc = "returned"
  /\ gg_result.status = "GOOGLE_OK_ALT0"
  /\ gg_result.resolved_publication # GgQueriedKey
  /\ gg_cache[GgQueriedKey] = gg_result.claims_text
  /\ GgCacheFile(gg_result.resolved_publication) = "absent"

----------------------------------------------------------------------------
(* Properties of the sem_v2 fetch loop *)

\* C27: the sem_v2 fetch loop halts as soon as the count of failures reaches
\* max_fail and not before (below the ceiling a failed seed leaves the loop
\* running), and every seed that was processed, the failing ones and the one
\* at which the loop halts included, has its record written.
C27_CircuitBreaker ==
  prog = "sem" =>
    /\ (sm_counters.fail >= sm_max_fail) <=> (sm_pc = "halted")
    /\ sm_pc \in {"wrote", "halted"} => sm_store[sm_pub] = Stored(sm_rec)

\* C30: a failed fetch never populates the store that suppresses re-fetching: no
\* {PUB}.json holds a FAIL record, and a seed is counted as skipped_cached in a
\* run without --overwrite only when an OK record is stored for it; a seed whose
\* fetch failed is fetched again.
C30_OnlyOkResultsSkipped ==
  [][prog = "sem" =>
       /\ \A p \in SemSeeds : sm_store'[p].status \in {"none", "OK"}
       /\ sm_counters'.skipped_cached = sm_counters.skipped_cached + 1 =>
            \A p \in sm_done' \ sm_done : sm_store[p].status = "OK"]_vars

----------------------------------------------------------------------------
(* Properties of the claims cache *)

\* C28: in the claims cache a file stands for a verified success: a payload that
\* fails has_claim_structure is never stored, and every payload fetch_claims_xml
\* returns with status OK(CACHE) passes has_claim_structure, so that a cache hit
\* never leads to STRUCTURE_UNCERTAIN.
C28_CachePresenceIsVerifiedSuccess ==
  prog = "claims" =>
    /\ \A d \in DocIds : cx_cache[d] # "absent" => has_claim_structure(cx_cache[d]).ok
    /\ \A i \in 1..Len(cx_trace) :
         (cx_trace[i].ev = "FETCH" /\ cx_trace[i].fetch_status = "OK(CACHE)") =>
           has_claim_structure(cx_trace[i].returned).ok

----------------------------------------------------------------------------
(* Properties of the records of the secondary source, as the lineage gate reads them *)

\* json.dumps in main, json.loads in the gate: a publication, a text field, the
\* selected_source field (character by character, for the gate's prefix test)
JsonPub(p) == IF p = NoPub THEN JNull ELSE JStr(p)

JsonText(t) == IF t = None THEN JNull ELSE JStr(<<t>>)

JsonSource(t) ==
  IF t = None THEN JNull
  ELSE IF t = GOOGLE_FALLBACK_PREFIX \o "SEED" THEN JStr(GateSourcePrefix \o <<"S", "E", "E", "D">>)
  ELSE JStr(<<t>>)

\* the record main wrote, as validate_google_row receives it; the file named by
\* claims_google_text_path is there when main wrote it
GateRowOf(out) ==
  [claims_source |-> out.claims_source,
   google_seed_publication |-> JsonPub(out.google_seed_publication),
   google_resolved_publication |-> JsonPub(out.google_resolved_publication),
   google_status |-> JsonText(out.google_status),
   claims_google_text_path |-> JsonText(out.claims_google_text_path),
   governance_flags |->
     JFlags([i \in 1..Len(out.governance_flags) |-> FlagStr(out.governance_flags[i])]),
   selected_source |-> JsonSource(out.selected_source),
   on_disk |-> out.claims_google_text_path \in cx_gtext]

\* the gate's findings about the four lineage fields and the text file
GateFieldReasons ==
  {"MISSING google_seed_publication", "MISSING google_resolved_publication",
   "MISSING google_status", "MISSING claims_google_text_path", "TXT file not found"}

\* main has written a record with claims_source = GOOGLE
CxWroteGoogle == prog = "claims" /\ CxWrote /\ cx_out.claims_source = "GOOGLE"

\* C29: every record the claims extractor writes with claims_source = GOOGLE
\* passes the field checks of the lineage gate, whatever the seed string the
\* secondary fetch returned text for: google_seed_publication,
\* google_resolved_publication, google_status and claims_google_text_path are
\* non-empty strings and the file at claims_google_text_path exists.
C29_GoogleRecordsPassFieldChecks ==
  CxWroteGoogle => validate_google_row(GateRowOf(cx_out), TRUE) \cap GateFieldReasons = {}

====
